---- MODULE Spec2Model ----
(***************************************************************************)
(* State-machine model of the sync backfill engine                         *)
(* (core/crates/sync/src/backfill.rs): the orchestrator                    *)
(* backfill_operations, the two generic paginators, the per-table fetches  *)
(* and converters, and the crdt_operation log they write.                  *)
(*                                                                         *)
(* Option<T> is modelled as a sequence: None is <<>>, Some(x) is <<x>>.    *)
(* The crdt_operation table is a bag of operation records; the timestamp   *)
(* the operation factory stamps on a record is not part of the record      *)
(* here, so two logs are compared "timestamps ignored", and a record       *)
(* written twice is counted twice.                                         *)
(***************************************************************************)
EXTENDS Integers, Sequences, FiniteSets, Bags, TLC

\* ------------------------------------------------------------------ bounds
\* Greatest local key of a table of the modelled store.
MaxRows == 2
\* The page bound of the bounded fetches (take(1000) in the source), scaled.
PageLimit == 1
\* Greatest page bound tried by the generic paginator's specification.
MaxPage == 3
\* Greatest local key of the table the generic paginator walks on its own.
MaxKey == 5

\* ----------------------------------------------------------------- options
None == <<>>
Some(x) == <<x>>
IsSome(o) == o # <<>>
Unwrap(o) == o[1]

\* The cursor both paginators start from: Some(-1), Some((-1, -1)).
Sentinel == -1

Min(a, b) == IF a < b THEN a ELSE b
Last(s) == s[Len(s)]
\* The first n elements of s (all of it when it is shorter): Prisma's take(n).
Take(s, n) == SubSeq(s, 1, Min(n, Len(s)))
\* Ceiling of n / p, p >= 1.
CeilDiv(n, p) == (n + p - 1) \div p

\* ------------------------------------------------------------ the store
\* sync.device_pub_id: the identity of the device the sync manager runs on.
DevicePubId == <<"device", 1>>
RemotePubId == <<"device", 2>>

\* The device rows. The local one carries every optional attribute but
\* date_deleted; the remote one belongs to another device of the library.
LocalDeviceRow ==
    [id |-> 1, pub_id |-> DevicePubId, name |-> Some(<<"v", 1>>), os |-> Some(<<"v", 2>>),
     hardware_model |-> Some(<<"v", 3>>), timestamp |-> Some(<<"v", 4>>),
     date_created |-> Some(<<"v", 5>>), date_deleted |-> None]
RemoteDeviceRow ==
    [id |-> 2, pub_id |-> RemotePubId, name |-> Some(<<"v", 6>>), os |-> None,
     hardware_model |-> None, timestamp |-> None,
     date_created |-> Some(<<"v", 7>>), date_deleted |-> None]

\* The value of optional column j of the row with local key k: present in
\* some rows and absent in others, for every column. Every column value and
\* every sync identity is a pair <<name, number>>.
Opt(k, j) == IF (k + j) % 2 = 0 THEN None ELSE Some(<<"v", 10 * k + j>>)

\* The device_id column of row k of a device-scoped table: the local device,
\* except for row f (when there is one), which belongs to `other` (another
\* device, Some(2), or no device, None).
Owner(k, f, other) == IF k = f THEN other ELSE Some(LocalDeviceRow.id)

TagRow(k) ==
    [id |-> k, pub_id |-> <<"tag", k>>, name |-> Opt(k, 1), color |-> Opt(k, 2),
     date_created |-> Opt(k, 3), date_modified |-> Opt(k, 4)]

\* label.name is the label's sync identity: required and unique.
LabelRow(k) ==
    [id |-> k, name |-> <<"label", k>>, date_created |-> Opt(k, 1),
     date_modified |-> Opt(k, 2)]

InstanceRow == [id |-> 1, pub_id |-> <<"instance", 1>>]

LocationRow(k, f, other) ==
    [id |-> k, pub_id |-> <<"location", k>>, name |-> Opt(k, 1),
     path |-> Opt(k, 2), total_capacity |-> Opt(k, 3),
     available_capacity |-> Opt(k, 4), size_in_bytes |-> Opt(k, 5),
     is_archived |-> Opt(k, 6), generate_preview_media |-> Opt(k, 7),
     sync_preview_media |-> Opt(k, 8), hidden |-> Opt(k, 9),
     date_created |-> Opt(k, 10),
     instance_id |-> IF k % 2 = 1 THEN Some(InstanceRow.id) ELSE None,
     device_id |-> Owner(k, f, other)]

ObjectRow(k, f, other) ==
    [id |-> k, pub_id |-> <<"object", k>>, kind |-> Opt(k, 1),
     hidden |-> Opt(k, 2), favorite |-> Opt(k, 3), important |-> Opt(k, 4),
     note |-> Opt(k, 5), date_created |-> Opt(k, 6),
     date_accessed |-> Opt(k, 7), device_id |-> Owner(k, f, other)]

\* exif_data.object_id is required and unique: row k describes object k.
ExifRow(k, f, other) ==
    [id |-> k, object_id |-> k, resolution |-> Opt(k, 1),
     media_date |-> Opt(k, 2), media_location |-> Opt(k, 3),
     camera_data |-> Opt(k, 4), artist |-> Opt(k, 5),
     description |-> Opt(k, 6), copyright |-> Opt(k, 7),
     exif_version |-> Opt(k, 8), epoch_time |-> Opt(k, 9),
     device_id |-> Owner(k, f, other)]

\* Odd file paths lie in location k, file paths above 1 point at object k.
FilePathRow(k, f, other) ==
    [id |-> k, pub_id |-> <<"file_path", k>>, is_dir |-> Opt(k, 1),
     cas_id |-> Opt(k, 2), integrity_checksum |-> Opt(k, 3),
     location_id |-> IF k % 2 = 1 THEN Some(k) ELSE None,
     object_id |-> IF k > 1 THEN Some(k) ELSE None,
     materialized_path |-> Opt(k, 4), name |-> Opt(k, 5),
     extension |-> Opt(k, 6), hidden |-> Opt(k, 7),
     size_in_bytes_bytes |-> Opt(k, 8), inode |-> Opt(k, 9),
     date_created |-> Opt(k, 10), date_modified |-> Opt(k, 11),
     date_indexed |-> Opt(k, 12), device_id |-> Owner(k, f, other)]

\* A tag_on_object row: the pair (tag_id, object_id) is its key.
TagOnObjectRow(g, i, f, other) ==
    [tag_id |-> g, object_id |-> i, date_created |-> Opt(g, i),
     device_id |-> Owner(i, f, other)]

\* A label_on_object row: date_created is a required column.
LabelOnObjectRow(g, i, f, other) ==
    [label_id |-> g, object_id |-> i, date_created |-> <<"v", 10 * g + i>>,
     device_id |-> Owner(i, f, other)]

StatsRow(k, dev) ==
    [id |-> k, pub_id |-> <<"stats", k>>, total_capacity |-> <<"v", 100 * k>>,
     available_capacity |-> <<"v", 10 * k>>, device_id |-> Some(dev)]

\* A store with n rows (local keys 1..n) in each entity table and every pair
\* of 1..n in the two join tables; row f (f = 0: none) of the device-scoped
\* tables belongs to `other`. Storage statistics has at most one row per
\* device (device_id is unique there). Without the local device row no row
\* can refer to it, so the store holds the remote device's rows only.
MkDb(n, f, other, hasStats, hasDevice) ==
    LET m == IF hasDevice THEN n ELSE 0
        ff == IF hasDevice THEN f ELSE 0 IN
    [device |-> (IF hasDevice THEN {LocalDeviceRow} ELSE {}) \cup {RemoteDeviceRow},
     instance |-> {InstanceRow},
     storage_statistics |->
        (IF hasStats /\ hasDevice THEN {StatsRow(2, LocalDeviceRow.id)} ELSE {})
            \cup {StatsRow(1, RemoteDeviceRow.id)},
     tag |-> {TagRow(k) : k \in 1..m},
     label |-> {LabelRow(k) : k \in 1..m},
     location |-> {LocationRow(k, ff, other) : k \in 1..m},
     object |-> {ObjectRow(k, ff, other) : k \in 1..m},
     exif_data |-> {ExifRow(k, ff, other) : k \in 1..m},
     file_path |-> {FilePathRow(k, ff, other) : k \in 1..m},
     tag_on_object |->
        {TagOnObjectRow(g, i, ff, other) : g \in 1..m, i \in 1..m},
     label_on_object |->
        {LabelOnObjectRow(g, i, ff, other) : g \in 1..m, i \in 1..m}]

\* The stores a run starts from: every row local (with and without a
\* storage-statistics row of the local device), a full store with one row
\* (the first or the last) of each device-scoped table owned by another device
\* or by none, a store that
\* lacks the local device's row, and the store of mixed ownership.
\* The device_id columns of a file path and of the location and object it
\* points at are independent: a full store of the local device in which
\* location 1 belongs to the other device and the last object to no device,
\* the file paths that point at them being the local device's.
MixedOwnershipDb ==
    [MkDb(MaxRows, 0, None, TRUE, TRUE) EXCEPT
        !.location = {LocationRow(k, 1, Some(RemoteDeviceRow.id)) : k \in 1..MaxRows},
        !.object = {ObjectRow(k, MaxRows, None) : k \in 1..MaxRows}]

Databases ==
    {MkDb(n, 0, None, hasStats, TRUE) : n \in 0..MaxRows, hasStats \in BOOLEAN}
    \cup {MkDb(MaxRows, f, other, TRUE, TRUE) :
            f \in {1, MaxRows}, other \in {None, Some(RemoteDeviceRow.id)}}
    \cup {MkDb(0, 0, None, FALSE, FALSE)}
    \cup {MixedOwnershipDb}

\* --------------------------------------------------- operations (sd_sync)
\* option_sync_entry!(value, field): the entry (field, v) of a present value,
\* nothing for an absent one.
OptionSyncEntry(value, field) ==
    IF IsSome(value) THEN Some(<<field, Unwrap(value)>>) ELSE None

\* sync_entry!(value, field): the entry of a required value.
SyncEntry(value, field) == <<field, value>>

\* chain_optional_iter(required, optional): the required entries followed by
\* the optional entries that are present, in order.
ChainOptionalIter(required, optional) ==
    LET present == SelectSeq(optional, IsSome)
    IN  required \o [i \in 1..Len(present) |-> Unwrap(present[i])]

\* The optional entries of the columns `fields` of `row`, in that order.
OptionEntries(row, fields) ==
    [i \in 1..Len(fields) |-> OptionSyncEntry(row[fields[i]], fields[i])]

\* sync.shared_create(id, entries) and sync.relation_create(id, entries),
\* stored by crdt_op_unchecked_db: a record tagged with the sync manager's
\* own device identity. record_id is the serialized sync identity: the
\* sequence of the (name, number) pairs it is made of.
SharedCreate(model, record_id, entries) ==
    [device_pub_id |-> DevicePubId, kind |-> "shared-create", model |-> model,
     record_id |-> record_id, entries |-> entries]

RelationCreate(model, record_id, entries) ==
    [device_pub_id |-> DevicePubId, kind |-> "relation-create", model |-> model,
     record_id |-> record_id, entries |-> entries]

\* ------------------------------------------------ included relations
\* include!({device: select { pub_id }}): the device row device_id points at.
RelatedPubId(table, fk) ==
    IF IsSome(fk)
    THEN Some((CHOOSE r \in table : r.id = Unwrap(fk)).pub_id)
    ELSE None

\* A required relation (exif_data.object, the two sides of a join row).
RequiredRow(table, key) == CHOOSE r \in table : r.id = key

\* ------------------------------------------------------------- converters
DeviceCreate(local_device) ==
    SharedCreate("device", <<local_device.pub_id>>,
        ChainOptionalIter(<<>>,
            OptionEntries(local_device,
                <<"name", "os", "hardware_model", "timestamp", "date_created",
                  "date_deleted">>)))

StorageStatisticsCreate(db, stats) ==
    SharedCreate("storage_statistics", <<stats.pub_id>>,
        ChainOptionalIter(
            <<SyncEntry(stats.total_capacity, "total_capacity"),
              SyncEntry(stats.available_capacity, "available_capacity")>>,
            <<OptionSyncEntry(RelatedPubId(db.device, stats.device_id), "device")>>))

\* Faulty variant of TagCreate: the color column is left out.
TagCreateWithoutColor(db, t) ==
    SharedCreate("tag", <<t.pub_id>>,
        ChainOptionalIter(<<>>,
            OptionEntries(t, <<"name", "date_created", "date_modified">>)))

TagCreate(db, t) ==
    SharedCreate("tag", <<t.pub_id>>,
        ChainOptionalIter(<<>>,
            OptionEntries(t, <<"name", "color", "date_created", "date_modified">>)))

LocationCreate(db, l) ==
    SharedCreate("location", <<l.pub_id>>,
        ChainOptionalIter(<<>>,
            OptionEntries(l,
                <<"name", "path", "total_capacity", "available_capacity",
                  "size_in_bytes", "is_archived", "generate_preview_media",
                  "sync_preview_media", "hidden", "date_created">>)
            \o <<OptionSyncEntry(RelatedPubId(db.instance, l.instance_id), "instance"),
                 OptionSyncEntry(RelatedPubId(db.device, l.device_id), "device")>>))

ObjectCreate(db, o) ==
    SharedCreate("object", <<o.pub_id>>,
        ChainOptionalIter(<<>>,
            OptionEntries(o,
                <<"kind", "hidden", "favorite", "important", "note",
                  "date_created", "date_accessed">>)
            \o <<OptionSyncEntry(RelatedPubId(db.device, o.device_id), "device")>>))

\* Faulty variant of ExifDataCreate: keyed by the first object of the store
\* rather than by the object the row describes.
ExifDataCreateFirstObject(db, ed) ==
    SharedCreate("exif_data",
        <<(CHOOSE o \in db.object : \A o2 \in db.object : o.id <= o2.id).pub_id>>,
        ChainOptionalIter(<<>>,
            OptionEntries(ed,
                <<"resolution", "media_date", "media_location", "camera_data",
                  "artist", "description", "copyright", "exif_version",
                  "epoch_time">>)
            \o <<OptionSyncEntry(RelatedPubId(db.device, ed.device_id), "device")>>))

\* The sync identity of an EXIF row is that of the object it describes.
ExifDataCreate(db, ed) ==
    SharedCreate("exif_data", <<RequiredRow(db.object, ed.object_id).pub_id>>,
        ChainOptionalIter(<<>>,
            OptionEntries(ed,
                <<"resolution", "media_date", "media_location", "camera_data",
                  "artist", "description", "copyright", "exif_version",
                  "epoch_time">>)
            \o <<OptionSyncEntry(RelatedPubId(db.device, ed.device_id), "device")>>))

FilePathCreate(db, fp) ==
    SharedCreate("file_path", <<fp.pub_id>>,
        ChainOptionalIter(<<>>,
            OptionEntries(fp, <<"is_dir", "cas_id", "integrity_checksum">>)
            \o <<OptionSyncEntry(RelatedPubId(db.location, fp.location_id), "location"),
                 OptionSyncEntry(RelatedPubId(db.object, fp.object_id), "object")>>
            \o OptionEntries(fp,
                <<"materialized_path", "name", "extension", "hidden",
                  "size_in_bytes_bytes", "inode", "date_created",
                  "date_modified", "date_indexed">>)
            \o <<OptionSyncEntry(RelatedPubId(db.device, fp.device_id), "device")>>))

TagOnObjectCreate(db, t_o) ==
    RelationCreate("tag_on_object",
        <<RequiredRow(db.tag, t_o.tag_id).pub_id,
          RequiredRow(db.object, t_o.object_id).pub_id>>,
        ChainOptionalIter(<<>>,
            <<OptionSyncEntry(t_o.date_created, "date_created"),
              OptionSyncEntry(RelatedPubId(db.device, t_o.device_id), "device")>>))

LabelCreate(db, l) ==
    SharedCreate("label", <<l.name>>,
        ChainOptionalIter(<<>>,
            OptionEntries(l, <<"date_created", "date_modified">>)))

\* Faulty variant of LabelOnObjectCreate: no date_created entry.
LabelOnObjectCreateWithoutDate(db, l_o) ==
    RelationCreate("label_on_object",
        <<RequiredRow(db.label, l_o.label_id).name,
          RequiredRow(db.object, l_o.object_id).pub_id>>,
        ChainOptionalIter(<<>>,
            <<OptionSyncEntry(RelatedPubId(db.device, l_o.device_id), "device")>>))

LabelOnObjectCreate(db, l_o) ==
    RelationCreate("label_on_object",
        <<RequiredRow(db.label, l_o.label_id).name,
          RequiredRow(db.object, l_o.object_id).pub_id>>,
        ChainOptionalIter(
            <<SyncEntry(l_o.date_created, "date_created")>>,
            <<OptionSyncEntry(RelatedPubId(db.device, l_o.device_id), "device")>>))


\* ---------------------------------------------------------- page fetches
\* order_by(id::order(SortOrder::Asc)): the rows of S by ascending id.
OrderById(S) ==
    [n \in 1..Cardinality(S) |->
        CHOOSE x \in S : Cardinality({y \in S : y.id < x.id}) = n - 1]

\* order_by(tag_id Asc) then order_by(object_id Asc).
OrderByTagThenObject(S) ==
    [n \in 1..Cardinality(S) |->
        CHOOSE x \in S :
            Cardinality({y \in S :
                \/ y.tag_id < x.tag_id
                \/ (y.tag_id = x.tag_id /\ y.object_id < x.object_id)}) = n - 1]

\* order_by(label_id Asc) then order_by(object_id Asc).
OrderByLabelThenObject(S) ==
    [n \in 1..Cardinality(S) |->
        CHOOSE x \in S :
            Cardinality({y \in S :
                \/ y.label_id < x.label_id
                \/ (y.label_id = x.label_id /\ y.object_id < x.object_id)}) = n - 1]

FetchTags(db, cursor) ==
    OrderById({t \in db.tag : t.id > cursor})

\* Faulty variant of FetchLocations: it skips the row right after the cursor.
FetchLocationsSkipping(db, device_id, cursor) ==
    Take(OrderById({l \in db.location :
                    l.id > cursor + 1 /\ l.device_id = Some(device_id)}),
         PageLimit)

FetchLocations(db, device_id, cursor) ==
    Take(OrderById({l \in db.location :
                    l.id > cursor /\ l.device_id = Some(device_id)}),
         PageLimit)

\* Faulty variant of FetchObjects: the page is not filtered on device_id.
FetchObjectsOfAnyDevice(db, device_id, cursor) ==
    Take(OrderById({o \in db.object : o.id > cursor}), PageLimit)

FetchObjects(db, device_id, cursor) ==
    Take(OrderById({o \in db.object :
                    o.id > cursor /\ o.device_id = Some(device_id)}),
         PageLimit)

FetchExifDatas(db, device_id, cursor) ==
    Take(OrderById({ed \in db.exif_data :
                    ed.id > cursor /\ ed.device_id = Some(device_id)}),
         PageLimit)

\* No take(): the page is every remaining row.
FetchFilePaths(db, device_id, cursor) ==
    OrderById({fp \in db.file_path :
                fp.id > cursor /\ fp.device_id = Some(device_id)})

\* Faulty variant of FetchTagsOnObjects: the same query with take(PageLimit).
FetchTagsOnObjectsBounded(db, device_id, group_id, item_id) ==
    Take(OrderByTagThenObject({t_o \in db.tag_on_object :
                /\ t_o.tag_id > group_id
                /\ t_o.object_id > item_id
                /\ t_o.device_id = Some(device_id)}),
         PageLimit)

\* The three conditions are conjoined: tag_id > group_id AND
\* object_id > item_id AND device_id = device_id. No take().
FetchTagsOnObjects(db, device_id, group_id, item_id) ==
    OrderByTagThenObject({t_o \in db.tag_on_object :
                /\ t_o.tag_id > group_id
                /\ t_o.object_id > item_id
                /\ t_o.device_id = Some(device_id)})

FetchLabels(db, cursor) ==
    OrderById({l \in db.label : l.id > cursor})

FetchLabelsOnObjects(db, device_id, group_id, item_id) ==
    OrderByLabelThenObject({l_o \in db.label_on_object :
                /\ l_o.label_id > group_id
                /\ l_o.object_id > item_id
                /\ l_o.device_id = Some(device_id)})

\* Faulty variant of FindFirstStorageStatistics: the first row of the table,
\* whichever device it is about.
FindFirstAnyStorageStatistics(db, device_id) ==
    LET found == OrderById(db.storage_statistics)
    IN  IF found = <<>> THEN None ELSE Some(found[1])

\* find_first(device_id = device_id) of storage statistics: the matching row
\* with the least id, if any.
FindFirstStorageStatistics(db, device_id) ==
    LET found == OrderById({st \in db.storage_statistics :
                            st.device_id = Some(device_id)})
    IN  IF found = <<>> THEN None ELSE Some(found[1])

\* Faulty variant of FindLocalDevice: a lookup that falls back on any device
\* row when none has the local identity.
FindSomeDevice(db) ==
    LET found == {d \in db.device : d.pub_id = DevicePubId}
    IN  IF found # {} THEN Some(CHOOSE d \in found : TRUE)
        ELSE IF db.device # {} THEN Some(CHOOSE d \in db.device : TRUE)
        ELSE None

\* find_unique(pub_id = sync.device_pub_id) of device.
FindLocalDevice(db) ==
    LET found == {d \in db.device : d.pub_id = DevicePubId}
    IN  IF found = {} THEN None ELSE Some(CHOOSE d \in found : TRUE)

\* ------------------------------------------------------------- paginators
\* The state of one run of paginate / paginate_relation between its awaits:
\*   st          "fetch": awaiting getter(cursor); "write": awaiting the batch
\*               write of `items`; "done": returned Ok
\*   next_cursor the loop variable
\*   items       the converted page handed to create_many
\*   fetches, writes, visited: what the run has done so far (the number of
\*               getter calls, of batch writes, and the keys of the rows passed
\*               to `operations`, in order)
PaginateStart ==
    [st |-> "fetch", next_cursor |-> Some(Sentinel), items |-> <<>>,
     fetches |-> 0, writes |-> 0, visited |-> <<>>]

\* Faulty variant of PaginateFetched: the next cursor is the key of the first
\* item of the page.
PaginateFetchedFirstKey(p, ids, creates) ==
    [p EXCEPT !.st = "write",
              !.next_cursor = IF ids = <<>> THEN None ELSE Some(ids[1]),
              !.items = creates,
              !.fetches = @ + 1,
              !.visited = @ \o ids]

\* Faulty variant of PaginateFetched: an empty page leaves the cursor as it
\* was.
PaginateFetchedKeepCursor(p, ids, creates) ==
    [p EXCEPT !.st = "write",
              !.next_cursor = IF ids = <<>> THEN p.next_cursor ELSE Some(Last(ids)),
              !.items = creates,
              !.fetches = @ + 1,
              !.visited = @ \o ids]

\* Faulty variant of PaginateFetched: the next page is fetched while the
\* pages fetched so far wait to be written.
PaginateFetchedAhead(p, ids, creates) ==
    [p EXCEPT !.st = IF ids = <<>> THEN "write" ELSE "fetch",
              !.next_cursor = IF ids = <<>> THEN None ELSE Some(Last(ids)),
              !.items = @ \o creates,
              !.fetches = @ + 1,
              !.visited = @ \o ids]

\* Faulty variant of PaginateFetched: an empty page ends the loop at once,
\* without a write.
PaginateFetchedSkipEmpty(p, ids, creates) ==
    [p EXCEPT !.st = IF ids = <<>> THEN "done" ELSE "write",
              !.next_cursor = IF ids = <<>> THEN None ELSE Some(Last(ids)),
              !.items = creates,
              !.fetches = @ + 1,
              !.visited = @ \o ids]

\* getter(cursor) returned a page whose rows have the keys `ids` (id mapped
\* over the items) and convert to `creates` (operations(items)): the next
\* cursor is the key of the last item, None for an empty page.
PaginateFetched(p, ids, creates) ==
    [p EXCEPT !.st = "write",
              !.next_cursor = IF ids = <<>> THEN None ELSE Some(Last(ids)),
              !.items = creates,
              !.fetches = @ + 1,
              !.visited = @ \o ids]

\* Faulty variant of PaginateWritten: the loop breaks after the first page.
PaginateWrittenOnce(p) ==
    [p EXCEPT !.st = "done", !.items = <<>>, !.writes = @ + 1]

\* The batch write returned: the loop goes round, and breaks on a None cursor.
PaginateWritten(p) ==
    [p EXCEPT !.st = IF IsSome(p.next_cursor) THEN "fetch" ELSE "done",
              !.items = <<>>,
              !.writes = @ + 1]

PaginateRelationStart ==
    [st |-> "fetch", next_cursor |-> Some(<<Sentinel, Sentinel>>), items |-> <<>>,
     fetches |-> 0, writes |-> 0, visited |-> <<>>]

PaginateRelationFetched(p, ids, creates) ==
    [p EXCEPT !.st = "write",
              !.next_cursor = IF ids = <<>> THEN None ELSE Some(Last(ids)),
              !.items = creates,
              !.fetches = @ + 1,
              !.visited = @ \o ids]

PaginateRelationWritten(p) ==
    [p EXCEPT !.st = IF IsSome(p.next_cursor) THEN "fetch" ELSE "done",
              !.items = <<>>,
              !.writes = @ + 1]


\* ------------------------------------------------------- location sidecar
\* (SpacedriveLocationMetadataFile: the .spacedrive file of a location.)

\* Calls that read the clock, after which no further such call is made.
MaxCalls == 2
LibraryIds == {1, 2}
LocationPaths == {1, 2}
LocationPubIds == {7}
\* The names given to locations: a short one and a longer one.
NameChar == <<"c", 0>>
Names == {<<NameChar>>, <<NameChar, NameChar>>}

SPACEDRIVE_LOCATION_METADATA_FILE == ".spacedrive"

\* location_path.join(SPACEDRIVE_LOCATION_METADATA_FILE)
Join(location_path) ==
    [dir |-> location_path, file |-> SPACEDRIVE_LOCATION_METADATA_FILE]

FilePaths == {Join(p) : p \in LocationPaths}

\* HashMap operations on the library map.
EmptyMap == [k \in {} |-> k]
MapInsert(map, key, value) ==
    [k \in DOMAIN map \cup {key} |-> IF k = key THEN value ELSE map[k]]
MapRemove(map, key) == [k \in DOMAIN map \ {key} |-> map[k]]
MapRetain(map, keys) == [k \in DOMAIN map \cap keys |-> map[k]]

\* A LocationMetadata made at time t.
LocationMetadata(pub_id, name, path, t) ==
    [pub_id |-> pub_id, name |-> name, path |-> path,
     created_at |-> t, updated_at |-> t]

\* serde_json::to_vec of the metadata: the opening of the object, its two
\* timestamps, one bracketed entry per library (key, pub_id, path, the two
\* timestamps and the characters of the name), and the closing of the
\* object. Every byte is written as a pair.
ObjectOpen == <<"{", 0>>
ObjectClose == <<"}", 0>>
EntryOpen == <<"[", 0>>
EntryClose == <<"]", 0>>

SerializeEntry(library_id, l) ==
    <<EntryOpen, <<"id", library_id>>, <<"uuid", l.pub_id>>, <<"path", l.path>>,
      <<"t", l.created_at>>, <<"t", l.updated_at>>>> \o l.name \o <<EntryClose>>

RECURSIVE SerializeLibraries(_, _)
SerializeLibraries(libraries, ids) ==
    IF ids = {} THEN <<>>
    ELSE LET id == CHOOSE k \in ids : \A o \in ids : k <= o IN
         SerializeEntry(id, libraries[id])
            \o SerializeLibraries(libraries, ids \ {id})

Serialize(metadata) ==
    <<ObjectOpen, <<"t", metadata.created_at>>, <<"t", metadata.updated_at>>>>
        \o SerializeLibraries(metadata.libraries, DOMAIN metadata.libraries)
        \o <<ObjectClose>>

\* The parse of the entries from byte i on: None for a malformed entry, for
\* bytes that end before the object closes, and for any byte after the
\* closing of the object (serde_json's "trailing characters").
RECURSIVE ParseLibraries(_, _, _)
ParseLibraries(bytes, i, libraries) ==
    IF i > Len(bytes) THEN None
    ELSE IF bytes[i] = ObjectClose
    THEN IF i = Len(bytes) THEN Some(libraries) ELSE None
    ELSE IF bytes[i] # EntryOpen THEN None
    ELSE LET ends == {j \in (i + 1)..Len(bytes) : bytes[j] = EntryClose} IN
         IF ends = {} THEN None
         ELSE LET j == CHOOSE e \in ends : \A o \in ends : e <= o IN
              IF \/ j - i < 6
                 \/ bytes[i + 1][1] # "id"
                 \/ bytes[i + 2][1] # "uuid"
                 \/ bytes[i + 3][1] # "path"
                 \/ bytes[i + 4][1] # "t"
                 \/ bytes[i + 5][1] # "t"
                 \/ \E k \in (i + 6)..(j - 1) : bytes[k] # NameChar
              THEN None
              ELSE ParseLibraries(bytes, j + 1,
                      MapInsert(libraries, bytes[i + 1][2],
                          [pub_id |-> bytes[i + 2][2],
                           name |-> SubSeq(bytes, i + 6, j - 1),
                           path |-> bytes[i + 3][2],
                           created_at |-> bytes[i + 4][2],
                           updated_at |-> bytes[i + 5][2]]))

\* serde_json::from_slice: Some(metadata), or None for an error.
Deserialize(bytes) ==
    IF \/ Len(bytes) < 4
       \/ bytes[1] # ObjectOpen
       \/ bytes[2][1] # "t"
       \/ bytes[3][1] # "t"
    THEN None
    ELSE LET parsed == ParseLibraries(bytes, 4, EmptyMap) IN
         IF parsed = None THEN None
         ELSE Some([libraries |-> Unwrap(parsed),
                    created_at |-> bytes[2][2],
                    updated_at |-> bytes[3][2]])

\* The bytes of the file at `path`, none for a file that does not exist.
FileBytes(files, path) ==
    IF files[path] = None THEN <<>> ELSE Unwrap(files[path])

\* OpenOptions create(true).write(true), then write_all: the file is created
\* if missing and the contents are written from its start, over what it
\* held; what it held beyond their length stays.
WriteAll(old, contents) ==
    contents \o SubSeq(old, Len(contents) + 1, Len(old))

\* write_metadata of `self` went through.
WriteMetadata(files, self) ==
    [files EXCEPT ![self.path] =
        Some(WriteAll(FileBytes(files, self.path), Serialize(self.metadata)))]

\* fs::remove_file went through.
RemoveFile(files, path) == [files EXCEPT ![path] = None]


\* ------------------------------------------------------------------ state
VARIABLES
    db,            \* the entity tables of the store (read only here)
    log,           \* the committed crdt_operation table: a bag of records
    lock,          \* sync.sync_lock: None, or Some(the caller holding it)
    pc,            \* per caller: where its backfill_operations call stands
    local_device,  \* per caller: the device row found before the transaction
    tx,            \* per caller: None, or Some(crdt_operation as its open
                   \*   transaction sees it)
    tasks,         \* per caller: the state of each table task of the waves
    result,        \* per caller: None while running, or Some(what the call returned)
    preLog,        \* per caller: the committed log when its transaction began
    commits,       \* the local-device operations in the log after each commit
    pgTable, pgLimit, pgUniform, pg,   \* the generic paginator on its own:
    pgPages, pgLog,                    \*   its table, its getter, its run
    relKind, rel, probe,               \* the relation paginator on its own
    fs,            \* the sidecar files: per metadata file path, None or
                   \*   Some(the bytes of the file)
    handle,        \* None, or Some(the SpacedriveLocationMetadataFile in hand)
    now,           \* what Utc::now() returns
    sdResult,      \* what the last call on the sidecar did and returned
    sdSeq,         \* how the calls since the last create_and_save went
    debug_assertions  \* whether the build has debug assertions on

vars == <<db, log, lock, pc, local_device, tx, tasks, result, preLog,
          commits, pgTable, pgLimit, pgUniform, pg, pgPages, pgLog,
          relKind, rel, probe,
          fs, handle, now, sdResult, sdSeq, debug_assertions>>

backfillVars == <<db, log, lock, pc, local_device, tx, tasks, result,
                  preLog, commits>>
pgVars == <<pgTable, pgLimit, pgUniform, pg, pgPages, pgLog>>
relVars == <<relKind, rel, probe>>
sdVars == <<fs, handle, now, sdResult, sdSeq, debug_assertions>>

\* The callers of backfill_operations on the one sync manager.
Callers == {"a", "b"}
\* Commits after which no further call is made (a call that returns an
\* error can always be made again).
MaxCommits == 2

Wave1 == {"storage_statistics", "tag", "location", "object", "label"}
Wave2 == {"exif_data", "file_path", "tag_on_object", "label_on_object"}
Tables == Wave1 \cup Wave2
RelationTables == {"tag_on_object", "label_on_object"}

\* ------------------------------------------------------ the operation log
\* Faulty variants of DeleteLocalOperations: a wipe of every record, and a
\* wipe of none.
DeleteAllOperations(ops) == EmptyBag
DeleteNoOperations(ops) == ops

\* delete_many(device_pub_id = sync.device_pub_id) on crdt_operation.
DeleteLocalOperations(ops) ==
    LET keep == {o \in DOMAIN ops : o.device_pub_id # DevicePubId}
    IN  [o \in keep |-> ops[o]]

\* create_many(creates) on crdt_operation.
CreateMany(ops, creates) ==
    ops (+) [o \in {creates[i] : i \in 1..Len(creates)} |->
                Cardinality({i \in 1..Len(creates) : creates[i] = o})]

\* The records of `ops` the device `dev` wrote.
OperationsOf(ops, dev) ==
    LET mine == {o \in DOMAIN ops : o.device_pub_id = dev}
    IN  [o \in mine |-> ops[o]]

\* The log the store holds before any backfill: two stale records of the
\* local device (one of a tag that still exists, with outdated entries, one
\* of a tag since deleted) and two records received from the other device.
InitialLog ==
    SetToBag({
        SharedCreate("tag", <<<<"tag", 1>>>>, <<>>),
        SharedCreate("tag", <<<<"tag", 99>>>>, <<<<"name", <<"v", 99>>>>>>),
        [SharedCreate("tag", <<<<"tag", 1>>>>, <<>>)
            EXCEPT !.device_pub_id = RemotePubId],
        [SharedCreate("object", <<<<"object", 7>>>>, <<>>)
            EXCEPT !.device_pub_id = RemotePubId]})


\* ------------------------------------------------------------ table tasks
\* A task whose future has not been created yet.
NotStarted ==
    [st |-> "idle", next_cursor |-> None, items |-> <<>>,
     fetches |-> 0, writes |-> 0, visited |-> <<>>]

\* backfill_storage_statistics: awaiting find_first.
StorageStatisticsStart ==
    [st |-> "fetch", next_cursor |-> None, items |-> <<>>,
     fetches |-> 0, writes |-> 0, visited |-> <<>>]

\* find_first returned: nothing to do without a row, else its one create.
BackfillStorageStatisticsFetched(d, device_id, p) ==
    LET stats == FindFirstStorageStatistics(d, device_id) IN
    IF stats = None
    THEN [p EXCEPT !.st = "done", !.fetches = @ + 1]
    ELSE [p EXCEPT !.st = "write",
                   !.items = <<StorageStatisticsCreate(d, Unwrap(stats))>>,
                   !.fetches = @ + 1,
                   !.visited = <<Unwrap(stats).id>>]

BackfillStorageStatisticsWritten(p) ==
    [p EXCEPT !.st = "done", !.items = <<>>, !.writes = @ + 1]

PaginateTagsFetched(d, p) ==
    LET tags == FetchTags(d, Unwrap(p.next_cursor)) IN
    PaginateFetched(p, [i \in 1..Len(tags) |-> tags[i].id],
                    [i \in 1..Len(tags) |-> TagCreate(d, tags[i])])

PaginateLocationsFetched(d, device_id, p) ==
    LET locations == FetchLocations(d, device_id, Unwrap(p.next_cursor)) IN
    PaginateFetched(p, [i \in 1..Len(locations) |-> locations[i].id],
                    [i \in 1..Len(locations) |-> LocationCreate(d, locations[i])])

PaginateObjectsFetched(d, device_id, p) ==
    LET objects == FetchObjects(d, device_id, Unwrap(p.next_cursor)) IN
    PaginateFetched(p, [i \in 1..Len(objects) |-> objects[i].id],
                    [i \in 1..Len(objects) |-> ObjectCreate(d, objects[i])])

PaginateLabelsFetched(d, p) ==
    LET labels == FetchLabels(d, Unwrap(p.next_cursor)) IN
    PaginateFetched(p, [i \in 1..Len(labels) |-> labels[i].id],
                    [i \in 1..Len(labels) |-> LabelCreate(d, labels[i])])

PaginateExifDatasFetched(d, device_id, p) ==
    LET exif_datas == FetchExifDatas(d, device_id, Unwrap(p.next_cursor)) IN
    PaginateFetched(p, [i \in 1..Len(exif_datas) |-> exif_datas[i].id],
                    [i \in 1..Len(exif_datas) |-> ExifDataCreate(d, exif_datas[i])])

PaginateFilePathsFetched(d, device_id, p) ==
    LET file_paths == FetchFilePaths(d, device_id, Unwrap(p.next_cursor)) IN
    PaginateFetched(p, [i \in 1..Len(file_paths) |-> file_paths[i].id],
                    [i \in 1..Len(file_paths) |-> FilePathCreate(d, file_paths[i])])

PaginateTagsOnObjectsFetched(d, device_id, p) ==
    LET cursor == Unwrap(p.next_cursor)
        tag_on_objects == FetchTagsOnObjects(d, device_id, cursor[1], cursor[2]) IN
    PaginateRelationFetched(p,
        [i \in 1..Len(tag_on_objects) |-> <<tag_on_objects[i].tag_id, tag_on_objects[i].object_id>>],
        [i \in 1..Len(tag_on_objects) |-> TagOnObjectCreate(d, tag_on_objects[i])])

PaginateLabelsOnObjectsFetched(d, device_id, p) ==
    LET cursor == Unwrap(p.next_cursor)
        label_on_objects == FetchLabelsOnObjects(d, device_id, cursor[1], cursor[2]) IN
    PaginateRelationFetched(p,
        [i \in 1..Len(label_on_objects) |-> <<label_on_objects[i].label_id, label_on_objects[i].object_id>>],
        [i \in 1..Len(label_on_objects) |-> LabelOnObjectCreate(d, label_on_objects[i])])

\* The state a task starts in when its wave creates its future.
TaskStart(t) ==
    IF t = "storage_statistics" THEN StorageStatisticsStart
    ELSE IF t \in RelationTables THEN PaginateRelationStart
    ELSE PaginateStart

\* Task t after its pending read returned.
TaskFetched(d, device_id, t, p) ==
    CASE t = "storage_statistics" -> BackfillStorageStatisticsFetched(d, device_id, p)
      [] t = "tag" -> PaginateTagsFetched(d, p)
      [] t = "location" -> PaginateLocationsFetched(d, device_id, p)
      [] t = "object" -> PaginateObjectsFetched(d, device_id, p)
      [] t = "label" -> PaginateLabelsFetched(d, p)
      [] t = "exif_data" -> PaginateExifDatasFetched(d, device_id, p)
      [] t = "file_path" -> PaginateFilePathsFetched(d, device_id, p)
      [] t = "tag_on_object" -> PaginateTagsOnObjectsFetched(d, device_id, p)
      [] t = "label_on_object" -> PaginateLabelsOnObjectsFetched(d, device_id, p)

\* Task t after its pending batch write returned.
TaskWritten(t, p) ==
    IF t = "storage_statistics" THEN BackfillStorageStatisticsWritten(p)
    ELSE IF t \in RelationTables THEN PaginateRelationWritten(p)
    ELSE PaginateWritten(p)

\* Faulty variant of WaveComplete: one task of the wave returned Ok.
WaveAnyComplete(ts, wave) == \E t \in wave : ts[t].st = "done"

\* try_join of a wave has every result: all its tasks returned Ok.
WaveComplete(ts, wave) == \A t \in wave : ts[t].st = "done"


\* ------------------------------------------------- backfill_operations
OkResult == [ok |-> TRUE, error |-> "none", at |-> "none"]
Err(kind, at) == [ok |-> FALSE, error |-> kind, at |-> at]

\* The states in which a call has returned.
Returned == {"committed", "aborted", "rejected"}

\* The tasks the fan-out of an orchestrator state runs.
WaveOf(state) ==
    IF state = "wave1" THEN Wave1 ELSE IF state = "wave2" THEN Wave2 ELSE {}

\* Faulty variant of Return: the lock guard outlives the call.
ReturnKeepingLock(c, state, r) ==
    /\ pc' = [pc EXCEPT ![c] = state]
    /\ result' = [result EXCEPT ![c] = Some(r)]
    /\ tx' = [tx EXCEPT ![c] = None]
    /\ lock' = lock

\* backfill_operations returns r: the transaction, if one is open, is gone
\* (committed by the caller of Return, rolled back otherwise) and the lock
\* guard is dropped.
Return(c, state, r) ==
    /\ pc' = [pc EXCEPT ![c] = state]
    /\ result' = [result EXCEPT ![c] = Some(r)]
    /\ tx' = [tx EXCEPT ![c] = None]
    /\ lock' = IF lock = Some(c) THEN None ELSE lock

\* Faulty variant of Abort: an abort that keeps what the transaction wrote.
AbortWithoutRollback(c, r) ==
    /\ Return(c, "aborted", r)
    /\ log' = Unwrap(tx[c])
    /\ tasks' = [tasks EXCEPT ![c] = [t \in Tables |-> NotStarted]]
    /\ UNCHANGED <<db, local_device, preLog, commits>>

\* An error inside the transaction closure: the futures of the running wave
\* are dropped and the transaction rolls back, so the committed table keeps
\* what it held.
Abort(c, r) ==
    /\ Return(c, "aborted", r)
    /\ tasks' = [tasks EXCEPT ![c] = [t \in Tables |-> NotStarted]]
    /\ UNCHANGED <<db, log, local_device, preLog, commits>>

\* A caller invokes backfill_operations and awaits sync_lock.lock().
Call(c) ==
    /\ pc[c] \in {"idle"} \cup Returned
    /\ Len(commits) < MaxCommits
    /\ UNCHANGED <<pgVars, relVars, sdVars>>
    /\ pc' = [pc EXCEPT ![c] = "waiting"]
    /\ result' = [result EXCEPT ![c] = None]
    /\ local_device' = [local_device EXCEPT ![c] = None]
    /\ tasks' = [tasks EXCEPT ![c] = [t \in Tables |-> NotStarted]]
    /\ preLog' = [preLog EXCEPT ![c] = None]
    /\ UNCHANGED <<db, log, lock, tx, commits>>

\* Faulty variant of LockFree: lock() resolves whether or not the mutex is held.
LockAlwaysFree == TRUE

\* sync_lock.lock() resolves: the mutex is free and the caller takes it.
LockFree == lock = None

Acquire(c) ==
    /\ pc[c] = "waiting"
    /\ LockFree
    /\ UNCHANGED <<pgVars, relVars, sdVars>>
    /\ lock' = Some(c)
    /\ pc' = [pc EXCEPT ![c] = "locked"]
    /\ UNCHANGED <<db, log, local_device, tx, tasks, result, preLog, commits>>

\* The lookup of the local device row, before the transaction.
FindDevice(c) ==
    /\ pc[c] = "locked"
    /\ UNCHANGED <<pgVars, relVars, sdVars>>
    /\ \/ /\ FindLocalDevice(db) # None
          /\ local_device' = [local_device EXCEPT ![c] = FindLocalDevice(db)]
          /\ pc' = [pc EXCEPT ![c] = "found"]
          /\ UNCHANGED <<lock, tx, result>>
       \/ /\ FindLocalDevice(db) = None
          /\ Return(c, "rejected", Err("device-not-found", "device"))
          /\ UNCHANGED local_device
       \/ /\ Return(c, "rejected", Err("storage-read-failure", "device"))
          /\ UNCHANGED local_device
    /\ UNCHANGED <<db, log, tasks, preLog, commits>>

\* Faulty variant of Begin: the closure goes straight to backfill_device,
\* without the wipe.
BeginSkippingWipe(c) ==
    /\ pc[c] = "found"
    /\ UNCHANGED <<pgVars, relVars, sdVars>>
    /\ tx' = [tx EXCEPT ![c] = Some(log)]
    /\ preLog' = [preLog EXCEPT ![c] = Some(log)]
    /\ pc' = [pc EXCEPT ![c] = "device"]
    /\ UNCHANGED <<db, log, lock, local_device, tasks, result, commits>>

\* db._transaction().run(...): the transaction opens on the committed table.
Begin(c) ==
    /\ pc[c] = "found"
    /\ UNCHANGED <<pgVars, relVars, sdVars>>
    /\ \/ /\ tx' = [tx EXCEPT ![c] = Some(log)]
          /\ preLog' = [preLog EXCEPT ![c] = Some(log)]
          /\ pc' = [pc EXCEPT ![c] = "wiping"]
          /\ UNCHANGED <<lock, result>>
       \/ /\ Return(c, "rejected", Err("storage-write-failure", "begin"))
          /\ UNCHANGED preLog
    /\ UNCHANGED <<db, log, local_device, tasks, commits>>

\* The wipe: delete_many of the local device's records, in the transaction.
Wipe(c) ==
    /\ pc[c] = "wiping"
    /\ UNCHANGED <<pgVars, relVars, sdVars>>
    /\ \/ /\ tx' = [tx EXCEPT ![c] = Some(DeleteLocalOperations(Unwrap(tx[c])))]
          /\ pc' = [pc EXCEPT ![c] = "device"]
          /\ UNCHANGED <<db, log, lock, local_device, tasks, result,
                         preLog, commits>>
       \/ Abort(c, Err("storage-write-failure", "wipe"))

\* backfill_device, then the creation of the five futures of the first wave.
BackfillDevice(c) ==
    /\ pc[c] = "device"
    /\ UNCHANGED <<pgVars, relVars, sdVars>>
    /\ \/ /\ tx' = [tx EXCEPT ![c] =
                      Some(CreateMany(Unwrap(tx[c]),
                                      <<DeviceCreate(Unwrap(local_device[c]))>>))]
          /\ pc' = [pc EXCEPT ![c] = "wave1"]
          /\ tasks' = [tasks EXCEPT ![c] =
                         [t \in Tables |->
                             IF t \in Wave1 THEN TaskStart(t) ELSE NotStarted]]
          /\ UNCHANGED <<db, log, lock, local_device, result, preLog, commits>>
       \/ \E kind \in {"serialization-failure", "storage-write-failure"} :
             Abort(c, Err(kind, "device"))

\* A task of the running wave moved to ts: when that completes the first
\* wave the second one starts, when it completes the second the closure
\* returns Ok and the transaction is about to commit.
Advance(c, ts) ==
    IF pc[c] = "wave1" /\ WaveComplete(ts, Wave1)
    THEN /\ pc' = [pc EXCEPT ![c] = "wave2"]
         /\ tasks' = [tasks EXCEPT ![c] =
                        [t \in Tables |->
                            IF t \in Wave2 THEN TaskStart(t) ELSE ts[t]]]
    ELSE IF pc[c] = "wave2" /\ WaveComplete(ts, Wave2)
    THEN /\ pc' = [pc EXCEPT ![c] = "commit"]
         /\ tasks' = [tasks EXCEPT ![c] = ts]
    ELSE /\ pc' = pc
         /\ tasks' = [tasks EXCEPT ![c] = ts]

\* The pending read of task t (a page fetch, find_first) returns.
TaskFetch(c, t) ==
    /\ t \in WaveOf(pc[c])
    /\ tasks[c][t].st = "fetch"
    /\ UNCHANGED <<pgVars, relVars, sdVars>>
    /\ Advance(c, [tasks[c] EXCEPT ![t] =
                      TaskFetched(db, Unwrap(local_device[c]).id, t, tasks[c][t])])
    /\ UNCHANGED <<db, log, lock, local_device, tx, result, preLog, commits>>

\* The pending batch write of task t returns.
TaskWrite(c, t) ==
    /\ t \in WaveOf(pc[c])
    /\ tasks[c][t].st = "write"
    /\ UNCHANGED <<pgVars, relVars, sdVars>>
    /\ tx' = [tx EXCEPT ![c] = Some(CreateMany(Unwrap(tx[c]), tasks[c][t].items))]
    /\ Advance(c, [tasks[c] EXCEPT ![t] = TaskWritten(t, tasks[c][t])])
    /\ UNCHANGED <<db, log, lock, local_device, result, preLog, commits>>

\* The errors the pending step of a task can end in: the read fails; or,
\* the page being fetched, the conversion of one of its rows fails (no write
\* is issued then) or the batch write fails.
TaskErrors(p) ==
    IF p.st = "fetch" THEN {"storage-read-failure"}
    ELSE IF p.st = "write"
    THEN {"storage-write-failure"} \cup
         (IF p.items # <<>> THEN {"serialization-failure"} ELSE {})
    ELSE {}

\* Faulty variant of TaskFail: the error of task t is recorded as the result
\* of the call while the other tasks of the wave run on.
TaskFailContinue(c, t) ==
    /\ t \in WaveOf(pc[c])
    /\ UNCHANGED <<pgVars, relVars, sdVars>>
    /\ \E kind \in TaskErrors(tasks[c][t]) :
          /\ result' = [result EXCEPT ![c] = Some(Err(kind, t))]
          /\ tasks' = [tasks EXCEPT ![c][t].st = "failed"]
    /\ UNCHANGED <<db, log, lock, pc, local_device, tx, preLog, commits>>

\* Task t returns an error: try_join returns it at once, dropping the other
\* tasks of the wave, and the closure returns it.
TaskFail(c, t) ==
    /\ t \in WaveOf(pc[c])
    /\ UNCHANGED <<pgVars, relVars, sdVars>>
    /\ \E kind \in TaskErrors(tasks[c][t]) : Abort(c, Err(kind, t))

\* The closure returned Ok: the transaction commits.
Commit(c) ==
    /\ pc[c] = "commit"
    /\ UNCHANGED <<pgVars, relVars, sdVars>>
    /\ \/ /\ log' = Unwrap(tx[c])
          /\ commits' = Append(commits, OperationsOf(Unwrap(tx[c]), DevicePubId))
          /\ Return(c, "committed", OkResult)
          /\ UNCHANGED <<db, local_device, tasks, preLog>>
       \/ Abort(c, Err("storage-write-failure", "commit"))

BackfillNext ==
    \E c \in Callers :
        \/ Call(c)
        \/ Acquire(c)
        \/ FindDevice(c)
        \/ Begin(c)
        \/ Wipe(c)
        \/ BackfillDevice(c)
        \/ \E t \in Tables : TaskFetch(c, t)
        \/ \E t \in Tables : TaskWrite(c, t)
        \/ \E t \in Tables : TaskFail(c, t)
        \/ Commit(c)

\* No call on a sidecar yet.
NoCall ==
    [op |-> "none", error |-> "none", library_id |-> 0, location_path |-> 0,
     wrote |-> None]

\* The sidecar's own variables, at rest.
SdIdle ==
    /\ fs = [f \in FilePaths |-> None]
    /\ handle = None
    /\ now = 0
    /\ sdResult = NoCall
    /\ sdSeq = [form |-> "none", clean |-> TRUE]
    /\ debug_assertions = FALSE

\* The paginators' own variables, at rest.
PgIdle ==
    /\ pgTable = {}
    /\ pgLimit = 1
    /\ pgUniform = TRUE
    /\ pg = NotStarted
    /\ pgPages = <<>>
    /\ pgLog = <<>>
RelIdle ==
    /\ relKind = "tag_on_object"
    /\ rel = NotStarted
    /\ probe = None

BackfillIdle ==
    /\ log = InitialLog
    /\ lock = None
    /\ pc = [c \in Callers |-> "off"]
    /\ local_device = [c \in Callers |-> None]
    /\ tx = [c \in Callers |-> None]
    /\ tasks = [c \in Callers |-> [t \in Tables |-> NotStarted]]
    /\ result = [c \in Callers |-> None]
    /\ preLog = [c \in Callers |-> None]
    /\ commits = <<>>

\* One caller that runs backfill_operations again and again, one run after
\* the other, on any store of Databases.
Init ==
    /\ db \in Databases
    /\ log = InitialLog
    /\ lock = None
    /\ pc = [c \in Callers |-> IF c = "a" THEN "idle" ELSE "off"]
    /\ local_device = [c \in Callers |-> None]
    /\ tx = [c \in Callers |-> None]
    /\ tasks = [c \in Callers |-> [t \in Tables |-> NotStarted]]
    /\ result = [c \in Callers |-> None]
    /\ preLog = [c \in Callers |-> None]
    /\ commits = <<>>
    /\ PgIdle
    /\ RelIdle
    /\ SdIdle

Next == BackfillNext

Spec == Init /\ [][Next]_vars


\* Two callers invoke backfill_operations on the same sync manager, each any
\* number of times, in any interleaving; the store holds the local device's
\* row and its storage statistics and no other row to backfill (every table
\* task still fetches a page and writes its batch), or lacks the local
\* device's row.
LockDatabases == {MkDb(0, 0, None, TRUE, TRUE), MkDb(0, 0, None, FALSE, FALSE)}

InitLock ==
    /\ db \in LockDatabases
    /\ log = InitialLog
    /\ lock = None
    /\ pc = [c \in Callers |-> "idle"]
    /\ local_device = [c \in Callers |-> None]
    /\ tx = [c \in Callers |-> None]
    /\ tasks = [c \in Callers |-> [t \in Tables |-> NotStarted]]
    /\ result = [c \in Callers |-> None]
    /\ preLog = [c \in Callers |-> None]
    /\ commits = <<>>
    /\ PgIdle
    /\ RelIdle
    /\ SdIdle

SpecLock == InitLock /\ [][Next]_vars

\* The mutex hands the lock to a caller that waits for it: a caller that
\* finds the mutex free again and again is not passed over for ever.
LockFairness == \A c \in Callers : SF_vars(Acquire(c))

\* What a call that holds the lock awaits next: the lookup, the opening of
\* the transaction, the wipe, the device's create, a fetch or a write of a
\* task, the commit.
Run(c) ==
    \/ FindDevice(c)
    \/ Begin(c)
    \/ Wipe(c)
    \/ BackfillDevice(c)
    \/ \E t \in Tables : TaskFetch(c, t)
    \/ \E t \in Tables : TaskWrite(c, t)
    \/ Commit(c)

\* The runtime completes what a call awaits, with its result or an error.
RunFairness == \A c \in Callers : WF_vars(Run(c))

\* The stores of the two callers' fair runs: empty tables and no
\* storage-statistics row of the local device, with and without its device
\* row.
LockFairDatabases ==
    {MkDb(0, 0, None, FALSE, TRUE), MkDb(0, 0, None, FALSE, FALSE)}

InitLockFair ==
    /\ db \in LockFairDatabases
    /\ log = InitialLog
    /\ lock = None
    /\ pc = [c \in Callers |-> "idle"]
    /\ local_device = [c \in Callers |-> None]
    /\ tx = [c \in Callers |-> None]
    /\ tasks = [c \in Callers |-> [t \in Tables |-> NotStarted]]
    /\ result = [c \in Callers |-> None]
    /\ preLog = [c \in Callers |-> None]
    /\ commits = <<>>
    /\ PgIdle
    /\ RelIdle
    /\ SdIdle

\* Two callers under a fair mutex and a runtime that completes every await.
SpecLockFair == InitLockFair /\ [][Next]_vars /\ LockFairness /\ RunFairness


\* ------------------------------------------ the generic paginator, alone
\* paginate driven by a getter that keeps the contract of the bounded table
\* fetches: the rows with id > cursor, ascending, at most pgLimit of them.
\* A uniform getter returns every page full (take(pgLimit)); a non-uniform one
\* may return any non-empty shorter page while rows remain.
PgRow(k) == [id |-> k]
PgCreate(row) == SharedCreate("row", <<<<"row", row.id>>>>, <<>>)

PgRemaining(cursor) == OrderById({PgRow(k) : k \in {j \in pgTable : j > cursor}})

\* The page lengths the getter may answer with.
PgPageLengths(cursor) ==
    LET full == Min(pgLimit, Len(PgRemaining(cursor))) IN
    IF pgUniform \/ full = 0 THEN {full} ELSE 1..full

PgFetch ==
    /\ pg.st = "fetch"
    /\ \E len \in PgPageLengths(Unwrap(pg.next_cursor)) :
          LET items == Take(PgRemaining(Unwrap(pg.next_cursor)), len) IN
          /\ pg' = PaginateFetched(pg, [i \in 1..Len(items) |-> items[i].id],
                                   [i \in 1..Len(items) |-> PgCreate(items[i])])
          /\ pgPages' = Append(pgPages, len)
    /\ UNCHANGED <<pgTable, pgLimit, pgUniform, pgLog>>
    /\ UNCHANGED <<backfillVars, relVars, sdVars>>

PgWrite ==
    /\ pg.st = "write"
    /\ pgLog' = pgLog \o pg.items
    /\ pg' = PaginateWritten(pg)
    /\ UNCHANGED <<pgTable, pgLimit, pgUniform, pgPages>>
    /\ UNCHANGED <<backfillVars, relVars, sdVars>>

\* The getter, the conversion or the batch write fails: paginate returns
\* the error.
PgFail ==
    /\ TaskErrors(pg) # {}
    /\ pg' = [pg EXCEPT !.st = "failed", !.items = <<>>]
    /\ UNCHANGED <<pgTable, pgLimit, pgUniform, pgPages, pgLog>>
    /\ UNCHANGED <<backfillVars, relVars, sdVars>>

InitPaginate ==
    /\ pgTable \in SUBSET (1..MaxKey)
    /\ pgLimit \in 1..MaxPage
    /\ pgUniform \in BOOLEAN
    /\ pg = PaginateStart
    /\ pgPages = <<>>
    /\ pgLog = <<>>
    /\ db = MkDb(0, 0, None, FALSE, FALSE)
    /\ BackfillIdle
    /\ RelIdle
    /\ SdIdle

NextPaginate == PgFetch \/ PgWrite \/ PgFail

SpecPaginate == InitPaginate /\ [][NextPaginate]_vars

\* ------------------------------------------ the relation paginator, alone
\* paginate_relation driven by the fetch of tag_on_object or label_on_object,
\* on any set of join rows; and that fetch applied to any cursor.
RelationRows(d, kind) ==
    IF kind = "tag_on_object" THEN d.tag_on_object ELSE d.label_on_object

\* The (group key, item key) of a join row.
RelationKey(kind, r) ==
    IF kind = "tag_on_object" THEN <<r.tag_id, r.object_id>>
    ELSE <<r.label_id, r.object_id>>

FetchRelation(d, kind, device_id, group_id, item_id) ==
    IF kind = "tag_on_object"
    THEN FetchTagsOnObjects(d, device_id, group_id, item_id)
    ELSE FetchLabelsOnObjects(d, device_id, group_id, item_id)

\* A full store whose join table `kind` holds the rows of the pairs `pairs`
\* of (group key, item key), the other join table being empty; the rows of
\* item f (f = 0: none) belong to the other device.
RelationDb(kind, pairs, f) ==
    [MkDb(MaxRows, f, Some(RemoteDeviceRow.id), TRUE, TRUE) EXCEPT
        !.tag_on_object =
            IF kind = "tag_on_object"
            THEN {TagOnObjectRow(k[1], k[2], f, Some(RemoteDeviceRow.id)) : k \in pairs}
            ELSE {},
        !.label_on_object =
            IF kind = "label_on_object"
            THEN {LabelOnObjectRow(k[1], k[2], f, Some(RemoteDeviceRow.id)) : k \in pairs}
            ELSE {}]

RelFetch ==
    /\ rel.st = "fetch"
    /\ rel' = TaskFetched(db, LocalDeviceRow.id, relKind, rel)
    /\ UNCHANGED <<relKind, probe>>
    /\ UNCHANGED <<backfillVars, pgVars, sdVars>>

RelWrite ==
    /\ rel.st = "write"
    /\ rel' = TaskWritten(relKind, rel)
    /\ UNCHANGED <<relKind, probe>>
    /\ UNCHANGED <<backfillVars, pgVars, sdVars>>

\* The page fetch of the table, asked with the cursor (group_id, item_id).
RelProbe ==
    /\ probe = None
    /\ rel.fetches = 0
    /\ \E group_id \in Sentinel..MaxRows, item_id \in Sentinel..MaxRows :
          probe' = Some([cursor |-> <<group_id, item_id>>,
                         rows |-> FetchRelation(db, relKind, LocalDeviceRow.id,
                                                group_id, item_id)])
    /\ UNCHANGED <<relKind, rel>>
    /\ UNCHANGED <<backfillVars, pgVars, sdVars>>

\* Any set of join rows over the keys 1..MaxRows, all of the local device or
\* those of item 1 of another device.
InitRelation ==
    /\ relKind \in RelationTables
    /\ \E pairs \in SUBSET ((1..MaxRows) \X (1..MaxRows)), f \in {0, 1} :
          db = RelationDb(relKind, pairs, f)
    /\ rel = PaginateRelationStart
    /\ probe = None
    /\ BackfillIdle
    /\ PgIdle
    /\ SdIdle

NextRelation == RelFetch \/ RelWrite \/ RelProbe

SpecRelation == InitRelation /\ [][NextRelation]_vars


\* ------------------------------------------ both paginators, scheduled
\* A run of paginate on any table, or a run of paginate_relation on any join
\* table, under a runtime that completes every awaited fetch and batch write:
\* a step that stays possible is eventually taken.
InitPaginators == InitPaginate \/ InitRelation

NextPaginators == PgFetch \/ PgWrite \/ PgFail \/ RelFetch \/ RelWrite

SpecPaginators ==
    /\ InitPaginators
    /\ [][NextPaginators]_vars
    /\ WF_vars(PgFetch)
    /\ WF_vars(PgWrite)
    /\ WF_vars(RelFetch)
    /\ WF_vars(RelWrite)

\* ------------------------------------------------ the location sidecar
\* One owner works on the sidecar files of the locations: it creates them,
\* loads one into the handle it keeps, and changes it through the handle.

\* The call `op` returns: Ok(()) for the error "none", else that error.
\* `wrote` is the handle whose metadata write_metadata wrote, `form` tells
\* how the calls since the last create_and_save went: "created" right after
\* it, "loaded" from the try_load that followed it on while add_library,
\* update, remove_library and clean_stale_libraries return Ok, else "other".
SdReturn(op, error, library_id, location_path, wrote, form) ==
    /\ sdResult' = [op |-> op, error |-> error, library_id |-> library_id,
                    location_path |-> location_path, wrote |-> wrote]
    /\ sdSeq' = [form |-> form, clean |-> sdSeq.clean /\ error = "none"]

StillLoaded == IF sdSeq.form = "loaded" THEN "loaded" ELSE "other"

\* The tail of a call that changed the handle to `self` and writes it.
Persist(op, library_id, location_path, self, form) ==
    /\ handle' = Some(self)
    /\ \/ /\ fs' = WriteMetadata(fs, self)
          /\ SdReturn(op, "none", library_id, location_path, Some(self), form)
       \/ /\ fs' = fs
          /\ SdReturn(op, "Write", library_id, location_path, None, "other")

\* The tail of a call that emptied the library map of `self`: the file is
\* removed (which fails on a file that does not exist).
Unlink(op, library_id, self, form) ==
    /\ handle' = Some(self)
    /\ \/ /\ fs[self.path] # None
          /\ fs' = RemoveFile(fs, self.path)
          /\ SdReturn(op, "none", library_id, 0, None, form)
       \/ /\ fs' = fs
          /\ SdReturn(op, "Delete", library_id, 0, None, "other")

\* A call that returns an error before it changed anything.
Refuse(op, error, library_id, location_path) ==
    /\ SdReturn(op, error, library_id, location_path, None, "other")
    /\ UNCHANGED <<fs, handle, now>>

TryLoad(location_path) ==
    LET metadata_file_name == Join(location_path)
        data == fs[metadata_file_name] IN
    /\ \/ /\ data = None
          /\ handle' = None
          /\ fs' = fs
          /\ SdReturn("try_load", "none", 0, location_path, None, "other")
       \/ /\ data # None
          /\ Deserialize(Unwrap(data)) # None
          /\ handle' = Some([path |-> metadata_file_name,
                             metadata |-> Unwrap(Deserialize(Unwrap(data)))])
          /\ fs' = fs
          /\ SdReturn("try_load", "none", 0, location_path, None,
                IF /\ sdSeq.form = "created"
                   /\ Unwrap(sdResult.wrote).path = metadata_file_name
                THEN "loaded" ELSE "other")
       \/ /\ data # None
          /\ Deserialize(Unwrap(data)) = None
          /\ IF debug_assertions
             THEN \/ /\ fs' = RemoveFile(fs, metadata_file_name)
                     /\ handle' = None
                     /\ SdReturn("try_load", "none", 0, location_path, None, "other")
                  \/ /\ UNCHANGED <<fs, handle>>
                     /\ SdReturn("try_load", "Delete", 0, location_path, None, "other")
             ELSE /\ UNCHANGED <<fs, handle>>
                  /\ SdReturn("try_load", "Deserialize", 0, location_path, None, "other")
       \/ /\ UNCHANGED <<fs, handle>>
          /\ SdReturn("try_load", "Read", 0, location_path, None, "other")
    /\ UNCHANGED <<now, debug_assertions>>
    /\ UNCHANGED <<backfillVars, pgVars, relVars>>

CreateAndSave(library_id, location_pub_id, location_path, location_name) ==
    LET self ==
          [path |-> Join(location_path),
           metadata |->
             [libraries |->
                 MapInsert(EmptyMap, library_id,
                     LocationMetadata(location_pub_id, location_name,
                                      location_path, now)),
              created_at |-> now,
              updated_at |-> now]] IN
    /\ now < MaxCalls
    /\ now' = now + 1
    /\ \/ /\ fs' = WriteMetadata(fs, self)
          /\ SdReturn("create_and_save", "none", library_id, location_path,
                      Some(self), "created")
       \/ /\ fs' = fs
          /\ SdReturn("create_and_save", "Write", library_id, location_path,
                      None, "other")
    /\ UNCHANGED <<handle, debug_assertions>>
    /\ UNCHANGED <<backfillVars, pgVars, relVars>>

Relink(library_id, location_path) ==
    /\ handle # None
    /\ LET self == Unwrap(handle)
           libraries == self.metadata.libraries IN
       IF library_id \notin DOMAIN libraries
       THEN Refuse("relink", "LibraryNotFound", library_id, location_path)
       ELSE IF libraries[library_id].path = location_path
       THEN Refuse("relink", "RelinkSamePath", library_id, location_path)
       ELSE /\ now < MaxCalls
            /\ now' = now + 1
            /\ Persist("relink", library_id, location_path,
                  [path |-> Join(location_path),
                   metadata |-> [self.metadata EXCEPT
                      !.libraries[library_id].path = location_path,
                      !.libraries[library_id].updated_at = now]],
                  "other")
    /\ UNCHANGED debug_assertions
    /\ UNCHANGED <<backfillVars, pgVars, relVars>>

Update(library_id, location_name) ==
    /\ handle # None
    /\ LET self == Unwrap(handle)
           libraries == self.metadata.libraries IN
       IF library_id \notin DOMAIN libraries
       THEN Refuse("update", "LibraryNotFound", library_id, 0)
       ELSE /\ now < MaxCalls
            /\ now' = now + 1
            /\ Persist("update", library_id, 0,
                  [self EXCEPT
                      !.metadata.libraries[library_id].name = location_name,
                      !.metadata.libraries[library_id].updated_at = now],
                  StillLoaded)
    /\ UNCHANGED debug_assertions
    /\ UNCHANGED <<backfillVars, pgVars, relVars>>

AddLibrary(library_id, location_pub_id, location_path, location_name) ==
    /\ handle # None
    /\ now < MaxCalls
    /\ now' = now + 1
    /\ LET self == Unwrap(handle) IN
       Persist("add_library", library_id, location_path,
          [self EXCEPT
              !.metadata.libraries =
                  MapInsert(@, library_id,
                      LocationMetadata(location_pub_id, location_name,
                                       location_path, now)),
              !.metadata.updated_at = now],
          StillLoaded)
    /\ UNCHANGED debug_assertions
    /\ UNCHANGED <<backfillVars, pgVars, relVars>>

\* Faulty variant of RemoveLibrary: updated_at is set before the lookup.
RemoveLibraryTouching(library_id) ==
    /\ handle # None
    /\ now < MaxCalls
    /\ now' = now + 1
    /\ LET self == Unwrap(handle)
           libraries == self.metadata.libraries
           touched == [self EXCEPT !.metadata.updated_at = now]
           removed == [touched EXCEPT
                          !.metadata.libraries = MapRemove(@, library_id)] IN
       IF library_id \notin DOMAIN libraries
       THEN /\ handle' = Some(touched)
            /\ fs' = fs
            /\ SdReturn("remove_library", "LibraryNotFound", library_id, 0,
                        None, "other")
       ELSE IF DOMAIN removed.metadata.libraries # {}
       THEN Persist("remove_library", library_id, 0, removed, StillLoaded)
       ELSE Unlink("remove_library", library_id, removed, StillLoaded)
    /\ UNCHANGED debug_assertions
    /\ UNCHANGED <<backfillVars, pgVars, relVars>>

RemoveLibrary(library_id) ==
    /\ handle # None
    /\ LET self == Unwrap(handle)
           libraries == self.metadata.libraries
           removed == [self EXCEPT
                          !.metadata.libraries = MapRemove(@, library_id),
                          !.metadata.updated_at = now] IN
       IF library_id \notin DOMAIN libraries
       THEN Refuse("remove_library", "LibraryNotFound", library_id, 0)
       ELSE /\ now < MaxCalls
            /\ now' = now + 1
            /\ IF DOMAIN removed.metadata.libraries # {}
               THEN Persist("remove_library", library_id, 0, removed, StillLoaded)
               ELSE Unlink("remove_library", library_id, removed, StillLoaded)
    /\ UNCHANGED debug_assertions
    /\ UNCHANGED <<backfillVars, pgVars, relVars>>

\* Faulty variant of CleanStaleLibraries: the file is written again also
\* when no library is left.
CleanStaleLibrariesRewriting(existing_libraries_ids) ==
    /\ handle # None
    /\ LET self == Unwrap(handle)
           libraries == self.metadata.libraries
           retained == [self EXCEPT
                           !.metadata.libraries =
                               MapRetain(@, existing_libraries_ids),
                           !.metadata.updated_at = now] IN
       IF DOMAIN retained.metadata.libraries # DOMAIN libraries
       THEN /\ now < MaxCalls
            /\ now' = now + 1
            /\ Persist("clean_stale_libraries", 0, 0, retained, StillLoaded)
       ELSE /\ SdReturn("clean_stale_libraries", "none", 0, 0, None, StillLoaded)
            /\ UNCHANGED <<fs, handle, now>>
    /\ UNCHANGED debug_assertions
    /\ UNCHANGED <<backfillVars, pgVars, relVars>>

CleanStaleLibraries(existing_libraries_ids) ==
    /\ handle # None
    /\ LET self == Unwrap(handle)
           libraries == self.metadata.libraries
           retained == [self EXCEPT
                           !.metadata.libraries =
                               MapRetain(@, existing_libraries_ids),
                           !.metadata.updated_at = now] IN
       IF Cardinality(DOMAIN retained.metadata.libraries)
             # Cardinality(DOMAIN libraries)
       THEN /\ now < MaxCalls
            /\ now' = now + 1
            /\ IF DOMAIN retained.metadata.libraries # {}
               THEN Persist("clean_stale_libraries", 0, 0, retained, StillLoaded)
               ELSE Unlink("clean_stale_libraries", 0, retained, StillLoaded)
       ELSE /\ SdReturn("clean_stale_libraries", "none", 0, 0, None, StillLoaded)
            /\ UNCHANGED <<fs, handle, now>>
    /\ UNCHANGED debug_assertions
    /\ UNCHANGED <<backfillVars, pgVars, relVars>>

\* Nothing on disk and no handle, in either build.
InitSidecar ==
    /\ fs = [f \in FilePaths |-> None]
    /\ handle = None
    /\ now = 0
    /\ sdResult = NoCall
    /\ sdSeq = [form |-> "none", clean |-> TRUE]
    /\ debug_assertions \in BOOLEAN
    /\ db = MkDb(0, 0, None, FALSE, FALSE)
    /\ BackfillIdle
    /\ PgIdle
    /\ RelIdle

NextSidecar ==
    \/ \E location_path \in LocationPaths : TryLoad(location_path)
    \/ \E library_id \in LibraryIds, location_pub_id \in LocationPubIds,
          location_path \in LocationPaths, location_name \in Names :
            CreateAndSave(library_id, location_pub_id, location_path, location_name)
    \/ \E library_id \in LibraryIds, location_path \in LocationPaths :
            Relink(library_id, location_path)
    \/ \E library_id \in LibraryIds, location_name \in Names :
            Update(library_id, location_name)
    \/ \E library_id \in LibraryIds, location_pub_id \in LocationPubIds,
          location_path \in LocationPaths, location_name \in Names :
            AddLibrary(library_id, location_pub_id, location_path, location_name)
    \/ \E library_id \in LibraryIds : RemoveLibrary(library_id)
    \/ \E existing_libraries_ids \in SUBSET LibraryIds :
            CleanStaleLibraries(existing_libraries_ids)

SpecSidecar == InitSidecar /\ [][NextSidecar]_vars

\* ------------------------------------------------------------------ claims
\* The records of `ops` the local device wrote for the row of `model` whose
\* serialized sync identity is `record_id`.
CreatesFor(ops, model, record_id) ==
    {o \in DOMAIN ops : /\ o.device_pub_id = DevicePubId
                        /\ o.kind \in {"shared-create", "relation-create"}
                        /\ o.model = model
                        /\ o.record_id = record_id}

\* `ops` holds exactly one such record, written once.
ExactlyOneCreate(ops, model, record_id) ==
    /\ Cardinality(CreatesFor(ops, model, record_id)) = 1
    /\ \A o \in CreatesFor(ops, model, record_id) : ops[o] = 1

\* The sync identity of row r of table `model` in store d: the pub_id of the
\* row; the name of a label; the pub_id of the object an EXIF row describes;
\* the identities of the two sides of a join row.
SyncIdOf(d, model, r) ==
    CASE model = "label" -> <<r.name>>
      [] model = "exif_data" ->
            <<(CHOOSE o \in d.object : o.id = r.object_id).pub_id>>
      [] model = "tag_on_object" ->
            <<(CHOOSE t \in d.tag : t.id = r.tag_id).pub_id,
              (CHOOSE o \in d.object : o.id = r.object_id).pub_id>>
      [] model = "label_on_object" ->
            <<(CHOOSE l \in d.label : l.id = r.label_id).name,
              (CHOOSE o \in d.object : o.id = r.object_id).pub_id>>
      [] OTHER -> <<r.pub_id>>

\* The tables whose rows carry a device_id column the fetches filter on.
DeviceScoped ==
    {"storage_statistics", "location", "object", "exif_data", "file_path",
     "tag_on_object", "label_on_object"}

SyncTables == {"device"} \cup Tables

\* The rows of table `model` the backfill of the local device covers.
LocalRows(d, model) ==
    IF model = "device" THEN {r \in d.device : r.pub_id = DevicePubId}
    ELSE IF model \in DeviceScoped
    THEN {r \in d[model] : r.device_id = Some(LocalDeviceRow.id)}
    ELSE d[model]

\* C1 (atomicity): whenever backfill_operations has returned an error raised
\* inside the transaction, the persisted operation log is exactly the log
\* that existed when the transaction began; and while a transaction is open
\* the persisted log is still that log.
C1_Atomicity ==
    \A c \in Callers :
        /\ pc[c] = "aborted" => log = Unwrap(preLog[c])
        /\ IsSome(tx[c]) => log = Unwrap(preLog[c])

\* A call that failed converting a page of file paths (second wave) on a store
\* with rows in the first-wave tables has returned, and the stale records of
\* the local device are in the log.
C1_Witness ==
    /\ pc["a"] = "aborted"
    /\ result["a"] = Some(Err("serialization-failure", "file_path"))
    /\ db.tag # {}
    /\ db.object # {}
    /\ BagIn(SharedCreate("tag", <<<<"tag", 99>>>>, <<<<"name", <<"v", 99>>>>>>), log)

PgKeys ==
    LET rows == OrderById({PgRow(k) : k \in pgTable})
    IN  [i \in 1..Len(rows) |-> rows[i].id]

Max(a, b) == IF a > b THEN a ELSE b

\* C3 (cursor pagination visits each row once): at every point of a run of
\* paginate -- any table, any page bound, full or shorter pages -- the rows
\* passed to the convert function so far are the first rows of the table in
\* ascending key order, each once; they are all the rows when paginate
\* returns; their creates are those written or about to be; and the cursor of
\* every fetch is the greatest key visited so far (the sentinel before any).
C3_EachRowOnce ==
    /\ Len(pg.visited) <= Len(PgKeys)
    /\ pg.visited = SubSeq(PgKeys, 1, Len(pg.visited))
    /\ pg.st = "done" => pg.visited = PgKeys
    /\ pg.st \in {"fetch", "write", "done"} =>
          pgLog \o pg.items = [i \in 1..Len(pg.visited) |-> PgCreate(PgRow(pg.visited[i]))]
    /\ pg.st = "fetch" =>
          /\ IsSome(pg.next_cursor)
          /\ \A i \in 1..Len(pg.visited) : pg.visited[i] <= Unwrap(pg.next_cursor)
          /\ Unwrap(pg.next_cursor) =
                (IF pg.visited = <<>> THEN Sentinel ELSE Last(pg.visited))

\* paginate returned after walking a table of at least four rows with gaps in
\* its keys in pages of different sizes.
C3_Witness ==
    /\ pg.st = "done"
    /\ Cardinality(pgTable) >= 4
    /\ 1 \notin pgTable
    /\ \E i, j \in DOMAIN pgPages : pgPages[i] > pgPages[j] /\ pgPages[j] > 0
    /\ Len(pgLog) = Cardinality(pgTable)

\* The length of page i when N rows are fetched P at a time.
PageLength(N, P, i) == Min(P, Max(0, N - (i - 1) * P))

\* C4 (fetch-call count, as the code has it): paginate always ends on an
\* empty page, every page before it being non-empty; with N rows fetched P
\* at a time it makes ceil(N/P) + 1 fetch calls -- ceil(N/P) pages of P rows
\* (the last of them possibly shorter), then the empty one -- and writes N
\* creates.
C4_FetchCount ==
    pg.st = "done" =>
        /\ pgPages # <<>>
        /\ Last(pgPages) = 0
        /\ \A i \in 1..(Len(pgPages) - 1) : pgPages[i] > 0
        /\ pg.fetches = Len(pgPages)
        /\ Len(pgLog) = Cardinality(pgTable)
        /\ pgUniform =>
              /\ pg.fetches = CeilDiv(Cardinality(pgTable), pgLimit) + 1
              /\ pgPages = [i \in 1..(CeilDiv(Cardinality(pgTable), pgLimit) + 1) |->
                               PageLength(Cardinality(pgTable), pgLimit, i)]

\* C4 as stated: ceil(N/P) fetch calls and N creates.
C4_FetchCountAsStated ==
    (pg.st = "done" /\ pgUniform) =>
        /\ pg.fetches = CeilDiv(Cardinality(pgTable), pgLimit)
        /\ Len(pgLog) = Cardinality(pgTable)

\* The scenario of the 2,500 rows in pages of 1000, scaled to 5 rows in pages
\* of 2: pages of 2, 2, 1 and 0 rows.
C4_Witness ==
    /\ pg.st = "done"
    /\ pgUniform
    /\ Cardinality(pgTable) = 5
    /\ pgLimit = 2
    /\ pgPages = <<2, 2, 1, 0>>
    /\ pg.fetches = 4
    /\ Len(pgLog) = 5


\* The rows of join table `kind` the local device owns.
LocalRelationRows(d, kind) ==
    {r \in RelationRows(d, kind) : r.device_id = Some(LocalDeviceRow.id)}

\* Rows of join table `kind` by ascending group key, then item key.
OrderRelation(kind, S) ==
    IF kind = "tag_on_object" THEN OrderByTagThenObject(S)
    ELSE OrderByLabelThenObject(S)

\* key > cursor under lexicographic order.
LexGreater(key, cursor) ==
    \/ key[1] > cursor[1]
    \/ (key[1] = cursor[1] /\ key[2] > cursor[2])

\* C5 (relation page fetch is lexicographic), as stated: a page fetch with
\* cursor (lastGroupKey, lastItemKey) returns exactly the local device's rows
\* whose (groupKey, itemKey) is lexicographically greater than the cursor, by
\* ascending group key then item key, for every cursor.
C5_LexicographicFetch ==
    IsSome(probe) =>
        Unwrap(probe).rows =
            OrderRelation(relKind,
                {r \in LocalRelationRows(db, relKind) :
                    LexGreater(RelationKey(relKind, r), Unwrap(probe).cursor)})

\* The keys of the local device's rows of the join table, ascending.
RelationKeys ==
    LET rows == OrderRelation(relKind, LocalRelationRows(db, relKind))
    IN  [i \in 1..Len(rows) |-> RelationKey(relKind, rows[i])]

\* C6 (relation pagination visits each join row once): at every point of a
\* run of paginate_relation on the fetch of tag_on_object or label_on_object,
\* the rows passed to the convert function so far are the first rows of the
\* local device in ascending (group key, item key) order, each once, and they
\* are all of them when the run returns.
C6_EachJoinRowOnce ==
    /\ Len(rel.visited) <= Len(RelationKeys)
    /\ rel.visited = SubSeq(RelationKeys, 1, Len(rel.visited))
    /\ rel.st = "done" => rel.visited = RelationKeys

\* A run over label_on_object returned, having visited (1, 2) and then
\* (2, 1): a row with a smaller item key than its predecessor's.
C6_Witness ==
    /\ rel.st = "done"
    /\ relKind = "label_on_object"
    /\ Len(rel.visited) >= 3
    /\ \E i \in 1..(Len(rel.visited) - 1) :
          rel.visited[i] = <<1, 2>> /\ rel.visited[i + 1] = <<2, 1>>

\* C7 (wave ordering): a task of the second wave exists (and so fetches or
\* writes) only when every task of the first wave has returned Ok.
C7_WaveOrdering ==
    \A c \in Callers : \A t \in Wave2 :
        (tasks[c][t].st # "idle" \/ tasks[c][t].fetches > 0 \/ tasks[c][t].writes > 0)
            => \A t1 \in Wave1 : tasks[c][t1].st = "done"

\* Two tasks of the second wave under way at once: the EXIF task awaits the
\* write of its first page while the file-path task, its first page written,
\* awaits its second fetch.
C7_Witness ==
    /\ pc["a"] = "wave2"
    /\ tasks["a"]["exif_data"].st = "write"
    /\ tasks["a"]["exif_data"].items # <<>>
    /\ tasks["a"]["file_path"].st = "fetch"
    /\ tasks["a"]["file_path"].writes = 1
    /\ tasks["a"]["tag_on_object"].fetches = 0

\* The records of `ops` written by devices other than the local one.
OtherDevicesOperations(ops) ==
    LET theirs == {o \in DOMAIN ops : o.device_pub_id # DevicePubId}
    IN  [o \in theirs |-> ops[o]]

\* C8 (wipe scope): the records of other devices in the persisted log, and in
\* the log as any open transaction sees it, are those the log held before any
\* backfill, each as many times: none is deleted or changed and none is added.
C8_WipeScope ==
    /\ OtherDevicesOperations(log) = OtherDevicesOperations(InitialLog)
    /\ \A c \in Callers :
          IsSome(tx[c]) =>
              OtherDevicesOperations(Unwrap(tx[c])) = OtherDevicesOperations(InitialLog)

\* A run committed: the stale record of the local device is gone and the
\* other device's record of the same tag is still there.
C8_Witness ==
    /\ pc["a"] = "committed"
    /\ ~BagIn(SharedCreate("tag", <<<<"tag", 99>>>>, <<<<"name", <<"v", 99>>>>>>), log)
    /\ BagIn([SharedCreate("tag", <<<<"tag", 1>>>>, <<>>)
                 EXCEPT !.device_pub_id = RemotePubId], log)
    /\ db.tag # {}

\* C9 (idempotence): the local device's records after any two successful
\* runs on the same store are the same records, each held once.
C9_Idempotence ==
    \A i, j \in DOMAIN commits :
        /\ commits[i] = commits[j]
        /\ \A o \in DOMAIN commits[i] : commits[i][o] = 1

\* Two runs committed on a full store.
C9_Witness ==
    /\ Len(commits) = 2
    /\ pc["a"] = "committed"
    /\ Cardinality(db.object) = MaxRows
    /\ BagCardinality(commits[2]) > 2 * MaxRows

\* No two shared-create records of the local device in `ops` are of the same
\* entity and target identity, and none is held twice.
NoDuplicateSharedCreate(ops) ==
    \A o1 \in DOMAIN ops :
        (o1.device_pub_id = DevicePubId /\ o1.kind = "shared-create") =>
            /\ ops[o1] = 1
            /\ \A o2 \in DOMAIN ops :
                  (/\ o2.device_pub_id = DevicePubId
                   /\ o2.kind = "shared-create"
                   /\ o2.model = o1.model
                   /\ o2.record_id = o1.record_id) => o2 = o1

\* C10 (no duplication): after a successful run no two shared-create records
\* of the local device target the same identity of the same entity (an EXIF
\* record is keyed by the identity of its object and is told from the object's
\* own record by its model); the same holds of the records the transaction
\* holds once the wipe is done.
C10_NoDuplication ==
    \A c \in Callers :
        /\ pc[c] = "committed" => NoDuplicateSharedCreate(log)
        /\ pc[c] \in {"device", "wave1", "wave2", "commit"} =>
              NoDuplicateSharedCreate(Unwrap(tx[c]))

\* A run committed on a store with two labels and two EXIF rows of the local
\* device; the log holds an EXIF record keyed like an object's record.
C10_Witness ==
    /\ pc["a"] = "committed"
    /\ Cardinality(db.label) >= 2
    /\ Cardinality(LocalRows(db, "exif_data")) >= 2
    /\ \E o1, o2 \in DOMAIN log :
          /\ o1.model = "exif_data"
          /\ o2.model = "object"
          /\ o1.record_id = o2.record_id
          /\ o1.device_pub_id = DevicePubId
          /\ o2.device_pub_id = DevicePubId


\* The states of a call between acquiring the lock and returning.
Holding == {"locked", "found", "wiping", "device", "wave1", "wave2", "commit"}

\* C11 (mutual exclusion): of the calls in flight at most one is between
\* acquiring the backfill lock and returning, and it is the one the lock
\* names; no other call has a device row looked up, a transaction open or a
\* task started.
C11_MutualExclusion ==
    /\ \A c1, c2 \in Callers :
          (pc[c1] \in Holding /\ pc[c2] \in Holding) => c1 = c2
    /\ \A c \in Callers :
          /\ pc[c] \in Holding <=> lock = Some(c)
          /\ pc[c] \notin Holding =>
                /\ tx[c] = None
                /\ \A t \in Tables : tasks[c][t].st \in {"idle", "done"}

\* One call is in its second wave, a page fetched and not yet written, while
\* the other waits for the lock after an earlier run of its own committed.
C11_Witness ==
    /\ pc["a"] = "wave2"
    /\ tasks["a"]["file_path"].st = "write"
    /\ pc["b"] = "waiting"
    /\ Len(commits) = 1
    /\ lock = Some("a")


\* No device row of the store has the local device's identity.
NoLocalDeviceRow == \A d \in db.device : d.pub_id # DevicePubId

\* C12 (device-not-found is fatal and side-effect free): on a store without
\* the local device's row a call never gets past the lookup: no transaction
\* is opened, no task is started, the log is never changed, and the call
\* returns an error, which is device-not-found unless the lookup itself
\* failed to read; and device-not-found is returned on such a store only.
C12_DeviceNotFound ==
    \A c \in Callers :
        /\ NoLocalDeviceRow =>
              /\ pc[c] \in {"off", "idle", "waiting", "locked", "rejected"}
              /\ log = InitialLog
              /\ commits = <<>>
              /\ tx[c] = None
              /\ preLog[c] = None
              /\ \A t \in Tables : tasks[c][t] = NotStarted
              /\ pc[c] = "rejected" =>
                    /\ lock = None
                    /\ result[c] \in {Some(Err("device-not-found", "device")),
                                      Some(Err("storage-read-failure", "device"))}
        /\ result[c] = Some(Err("device-not-found", "device")) =>
              /\ NoLocalDeviceRow
              /\ pc[c] = "rejected"

\* A call returned device-not-found; the stale records of the local device
\* are still in the log and the lock is free.
C12_Witness ==
    /\ NoLocalDeviceRow
    /\ pc["a"] = "rejected"
    /\ result["a"] = Some(Err("device-not-found", "device"))
    /\ log = InitialLog
    /\ lock = None


\* The create records of `ops`, of any device, for the row of `model` whose
\* serialized sync identity is `record_id`.
AnyCreatesFor(ops, model, record_id) ==
    {o \in DOMAIN ops : o.model = model /\ o.record_id = record_id}

\* C13 (dependency ordering of references), as stated: after a successful
\* backfill, for every file-path create of the local device and every
\* location or object reference entry it carries, the log holds a create for
\* the location or object of that sync identity.
C13_ReferencesExist ==
    \A c \in Callers :
        pc[c] = "committed" =>
            \A o \in DOMAIN log :
                (o.device_pub_id = DevicePubId /\ o.model = "file_path") =>
                    \A i \in DOMAIN o.entries :
                        o.entries[i][1] \in {"location", "object"} =>
                            AnyCreatesFor(log, o.entries[i][1], <<o.entries[i][2]>>) # {}


\* The optional columns of table `model` that its converter syncs.
OptionalColumns(model) ==
    CASE model = "device" ->
            {"name", "os", "hardware_model", "timestamp", "date_created", "date_deleted"}
      [] model = "tag" -> {"name", "color", "date_created", "date_modified"}
      [] model = "label" -> {"date_created", "date_modified"}
      [] model = "location" ->
            {"name", "path", "total_capacity", "available_capacity", "size_in_bytes",
             "is_archived", "generate_preview_media", "sync_preview_media", "hidden",
             "date_created"}
      [] model = "object" ->
            {"kind", "hidden", "favorite", "important", "note", "date_created",
             "date_accessed"}
      [] model = "exif_data" ->
            {"resolution", "media_date", "media_location", "camera_data", "artist",
             "description", "copyright", "exif_version", "epoch_time"}
      [] model = "file_path" ->
            {"is_dir", "cas_id", "integrity_checksum", "materialized_path", "name",
             "extension", "hidden", "size_in_bytes_bytes", "inode", "date_created",
             "date_modified", "date_indexed"}
      [] model = "tag_on_object" -> {"date_created"}
      [] OTHER -> {}

\* The nullable relations of table `model` that its converter syncs: the
\* entry's field, the foreign-key column and the table it points into.
NullableRelations(model) ==
    CASE model = "storage_statistics" -> {<<"device", "device_id", "device">>}
      [] model = "location" ->
            {<<"instance", "instance_id", "instance">>, <<"device", "device_id", "device">>}
      [] model \in {"object", "exif_data", "tag_on_object", "label_on_object"} ->
            {<<"device", "device_id", "device">>}
      [] model = "file_path" ->
            {<<"location", "location_id", "location">>,
             <<"object", "object_id", "object">>,
             <<"device", "device_id", "device">>}
      [] OTHER -> {}

\* The positions of the entries of record o for `field`.
EntriesFor(o, field) == {i \in DOMAIN o.entries : o.entries[i][1] = field}

\* Record o has no entry for `field` when `value` is absent, and exactly one,
\* carrying the value, when it is present.
EntryIffPresent(o, field, value) ==
    IF IsSome(value)
    THEN /\ Cardinality(EntriesFor(o, field)) = 1
         /\ \A i \in EntriesFor(o, field) : o.entries[i][2] = Unwrap(value)
    ELSE EntriesFor(o, field) = {}

\* C14 (optional-field omission): after a successful backfill, the create of
\* every covered row of every table has, for each optional column and each
\* nullable relation of the row, no entry when the value is absent and
\* exactly one entry, with the value (the related row's pub_id), when it is
\* present.
C14_OptionalFieldOmission ==
    \A c \in Callers :
        pc[c] = "committed" =>
            \A model \in SyncTables : \A r \in LocalRows(db, model) :
                \A o \in CreatesFor(log, model, SyncIdOf(db, model, r)) :
                    /\ \A f \in OptionalColumns(model) :
                          EntryIffPresent(o, f, r[f])
                    /\ \A n \in NullableRelations(model) :
                          EntryIffPresent(o, n[1],
                              IF IsSome(r[n[2]])
                              THEN Some((CHOOSE x \in db[n[3]] : x.id = Unwrap(r[n[2]])).pub_id)
                              ELSE None)

\* A run committed on a store with a tag that has a color and one that has
\* none, and a file path with an object and one without.
C14_Witness ==
    /\ pc["a"] = "committed"
    /\ \E t1, t2 \in db.tag : IsSome(t1.color) /\ ~IsSome(t2.color)
    /\ \E f1, f2 \in LocalRows(db, "file_path") :
          IsSome(f1.object_id) /\ ~IsSome(f2.object_id)
    /\ \E o \in DOMAIN log :
          o.device_pub_id = DevicePubId /\ o.model = "tag" /\ EntriesFor(o, "color") # {}


\* The call of c has returned an error.
ReturnedError(res) == IsSome(res) /\ ~Unwrap(res).ok

\* One step, seen from caller c: a table task's error becomes the result of
\* the call only in the step in which that task, running in the current wave,
\* fails at its pending fetch, conversion or write, and in that very step the
\* call is aborted with no task left in flight and no transaction; and from a
\* returned error on no task of the run fetches or writes.
FailFastStep(c) ==
    /\ (result'[c] # result[c] /\ ReturnedError(result'[c])
            /\ Unwrap(result'[c]).at \in Tables) =>
          /\ pc[c] \in {"wave1", "wave2"}
          /\ Unwrap(result'[c]).at \in (IF pc[c] = "wave1" THEN Wave1 ELSE Wave2)
          /\ Unwrap(result'[c]).error \in TaskErrors(tasks[c][Unwrap(result'[c]).at])
          /\ pc'[c] = "aborted"
          /\ tx'[c] = None
          /\ \A t \in Tables : tasks'[c][t] = NotStarted
    /\ ReturnedError(result[c]) =>
          \A t \in Tables : tasks'[c][t] = NotStarted

\* C15 (fail-fast fan-out): the first error of a task of a wave is returned
\* by backfill_operations in the step it arises, the sibling tasks being
\* dropped with it; no task of the run fetches or writes afterwards, and
\* after a failure in the first wave no task of the second is ever started.
C15_FailFast == [][\A c \in Callers : FailFastStep(c)]_vars

\* A call failed reading a page of objects (first wave) on a store with
\* objects; nothing of the run is left in flight.
C15_Witness ==
    /\ pc["a"] = "aborted"
    /\ result["a"] = Some(Err("storage-read-failure", "object"))
    /\ db.object # {}
    /\ \A t \in Tables : tasks["a"][t] = NotStarted
    /\ lock = None


\* One step of paginate: a fetch is issued only with a cursor, the first one
\* with the sentinel, and never after an empty page (which leaves no cursor);
\* the cursor a fetch leaves is greater than the one it was given; and after
\* the write of an empty page the loop is over.
PaginateStep ==
    /\ pg'.fetches > pg.fetches =>
          /\ IsSome(pg.next_cursor)
          /\ pg.fetches = 0 => Unwrap(pg.next_cursor) = Sentinel
          /\ IsSome(pg'.next_cursor) =>
                Unwrap(pg'.next_cursor) > Unwrap(pg.next_cursor)
          /\ pg'.visited = pg.visited <=> pg'.next_cursor = None
    /\ pg.next_cursor = None => pg'.fetches = pg.fetches
    /\ (pg.st = "write" /\ pg.next_cursor = None /\ pg' # pg) =>
          pg'.st \in {"done", "failed"}

\* The same of paginate_relation, cursors compared as pairs.
PaginateRelationStep ==
    /\ rel'.fetches > rel.fetches =>
          /\ IsSome(rel.next_cursor)
          /\ rel.fetches = 0 => Unwrap(rel.next_cursor) = <<Sentinel, Sentinel>>
          /\ IsSome(rel'.next_cursor) =>
                LexGreater(Unwrap(rel'.next_cursor), Unwrap(rel.next_cursor))
          /\ rel'.visited = rel.visited <=> rel'.next_cursor = None
    /\ rel.next_cursor = None => rel'.fetches = rel.fetches
    /\ (rel.st = "write" /\ rel.next_cursor = None /\ rel' # rel) =>
          rel'.st = "done"

\* C16 (pagination termination): every run of paginate and of
\* paginate_relation on a finite table comes to an end (Ok, or the error of a
\* failed step); the loop stops after the first empty page, no fetch follows
\* an empty page, and the cursors of successive fetches increase strictly
\* from the sentinel.
C16_Termination ==
    /\ <>(pg.st \in {"idle", "done", "failed"} /\ rel.st \in {"idle", "done"})
    /\ [][PaginateStep /\ PaginateRelationStep]_vars

\* paginate returned Ok after three non-empty pages and the empty one.
C16_Witness ==
    /\ pg.st = "done"
    /\ pg.fetches = 4
    /\ Len(pg.visited) >= 3
    /\ pgLimit = 1
    /\ {1, 2} \cap pgTable = {}


\* The tasks that paginate a table.
PaginatedTables == Tables \ {"storage_statistics"}

\* C17 (one page in flight per table): in every table's pagination a fetch
\* is issued only when every page fetched before has been written, so the
\* pages fetched exceed the pages written by at most one, and a page is held
\* only while its write is pending.
C17_OnePageInFlight ==
    \A c \in Callers : \A t \in PaginatedTables :
        LET p == tasks[c][t] IN
        /\ p.fetches - p.writes \in {0, 1}
        /\ p.st = "fetch" => p.fetches = p.writes /\ p.items = <<>>
        /\ p.st = "write" => p.fetches = p.writes + 1
        /\ p.st = "done" => p.fetches = p.writes /\ p.items = <<>>
        /\ p.items # <<>> => p.st = "write"

\* The second page of the tag table is being fetched, the first one written.
C17_Witness ==
    LET p == tasks["a"]["tag"] IN
    /\ pc["a"] = "wave1"
    /\ p.st = "fetch"
    /\ p.fetches = 1
    /\ p.writes = 1
    /\ p.visited # <<>>


\* The steps of a call, as pairs of orchestrator states: the call and the
\* lock, the lookup of the device row, the opening of the transaction, the
\* wipe, the device's create operation, the two waves and the commit, each
\* step after the lookup also able to end the call with its error.
StepOrderTransitions ==
    {<<from, "waiting">> : from \in {"idle"} \cup Returned}
    \cup {<<"waiting", "locked">>,
          <<"locked", "found">>, <<"locked", "rejected">>,
          <<"found", "wiping">>, <<"found", "rejected">>,
          <<"wiping", "device">>, <<"wiping", "aborted">>,
          <<"device", "wave1">>, <<"device", "aborted">>,
          <<"wave1", "wave2">>, <<"wave1", "aborted">>,
          <<"wave2", "commit">>, <<"wave2", "aborted">>,
          <<"commit", "committed">>, <<"commit", "aborted">>}

\* The local device's row is read in this step of caller c.
DeviceRowRead(c) ==
    local_device'[c] # local_device[c] /\ IsSome(local_device'[c])

\* Caller c enters the orchestrator state `state` in this step.
Enters(c, state) == pc[c] # state /\ pc'[c] = state

\* What the first wave starts from: the transaction holds, of the local
\* device, the create operation of its row and nothing else, and the five
\* tasks of the wave, none of which existed, are created.
StartsWave1(c) ==
    /\ pc[c] = "device"
    /\ IsSome(tx[c])
    /\ DOMAIN OperationsOf(Unwrap(tx[c]), DevicePubId) = {}
    /\ OperationsOf(Unwrap(tx'[c]), DevicePubId) =
          SetToBag({DeviceCreate(Unwrap(local_device[c]))})
    /\ \A t \in Tables : tasks[c][t] = NotStarted
    /\ \A t \in Wave1 : tasks'[c][t] = TaskStart(t)

\* The order of the steps as the code has it: the device row is read once,
\* under the lock and before the transaction opens.
StepOrder(c) ==
    /\ pc'[c] # pc[c] => <<pc[c], pc'[c]>> \in StepOrderTransitions
    /\ DeviceRowRead(c) =>
          pc[c] = "locked" /\ lock = Some(c) /\ tx[c] = None /\ tx'[c] = None
    /\ Enters(c, "wiping") => tx'[c] = Some(log)
    /\ Enters(c, "device") =>
          /\ pc[c] = "wiping"
          /\ DOMAIN OperationsOf(Unwrap(tx'[c]), DevicePubId) = {}
          /\ local_device'[c] = local_device[c]
    /\ Enters(c, "wave1") => StartsWave1(c)

\* The order of the steps as stated: the device row is read inside the open
\* transaction, after the wipe.
StepOrderAsStated(c) ==
    /\ pc'[c] # pc[c] => <<pc[c], pc'[c]>> \in StepOrderTransitions
    /\ DeviceRowRead(c) =>
          pc[c] = "device" /\ IsSome(tx[c])
    /\ Enters(c, "wave1") => StartsWave1(c)

\* C18 (orchestrator step order): every run that reaches the first wave has
\* taken the lock, read the local device's row, opened the transaction, and
\* inside it wiped the local device's operations and then written the create
\* operation of the row read before, in this order, and only then started the
\* tasks of the first wave; the waves and the commit follow in order, no step
\* skipped or reordered.
C18_StepOrder == [][\A c \in Callers : StepOrder(c)]_vars

\* C18 as stated: the same order, with the device's row fetched again inside
\* the transaction between the wipe and the write of its create operation.
C18_StepOrderAsStated == [][\A c \in Callers : StepOrderAsStated(c)]_vars

\* The first wave has just started, on a log that held operations of the
\* local device: the transaction now holds only the device's create operation
\* of them.
C18_Witness ==
    /\ pc["a"] = "wave1"
    /\ \A t \in Wave1 : tasks["a"][t] = TaskStart(t)
    /\ DOMAIN OperationsOf(log, DevicePubId) # {}
    /\ OperationsOf(Unwrap(tx["a"]), DevicePubId) =
          SetToBag({DeviceCreate(Unwrap(local_device["a"]))})
    /\ DeviceCreate(Unwrap(local_device["a"])) \notin DOMAIN log


\* The storage-statistics create operations of the local device in `ops`,
\* each counted as often as it was written.
StorageStatisticsCreates(ops) ==
    LET creates == {o \in DOMAIN ops : /\ o.device_pub_id = DevicePubId
                                       /\ o.kind = "shared-create"
                                       /\ o.model = "storage_statistics"}
    IN  BagCardinality([o \in creates |-> ops[o]])

\* The number of operations the storage-statistics task of a store writes:
\* one when a row of the local device exists, none otherwise.
StorageStatisticsExpected(d) ==
    IF LocalRows(d, "storage_statistics") # {} THEN 1 ELSE 0

RelationRowOf(key) ==
    CHOOSE r \in RelationRows(db, relKind) : RelationKey(relKind, r) = key

\* The row the i-th operation of the page in hand was converted from: the
\* page is the tail of the keys visited.
PageRow(i) == RelationRowOf(rel.visited[Len(rel.visited) - Len(rel.items) + i])

\* C20 (creation-timestamp asymmetry of the relation converters): every
\* operation a join-table page converts to is a relation-create whose target
\* is the pair of the sync identities of the row's two sides; the one of a
\* label_on_object row has exactly one date_created entry, with the row's
\* value, whatever the row; the one of a tag_on_object row has that entry if
\* and only if the row's date_created is not null.
C20_TimestampAsymmetry ==
    rel.st = "write" =>
        \A i \in 1..Len(rel.items) :
            LET o == rel.items[i]
                r == PageRow(i) IN
            /\ o.kind = "relation-create"
            /\ o.model = relKind
            /\ o.record_id = SyncIdOf(db, relKind, r)
            /\ Len(o.record_id) = 2
            /\ IF relKind = "label_on_object"
               THEN EntryIffPresent(o, "date_created", Some(r.date_created))
               ELSE EntryIffPresent(o, "date_created", r.date_created)

\* A page of tag_on_object rows in hand, one of a row with a creation
\* timestamp (its operation has the entry) and one of a row without (its
\* operation has none).
C20_Witness ==
    /\ rel.st = "write"
    /\ relKind = "tag_on_object"
    /\ \E i, j \in 1..Len(rel.items) :
          /\ IsSome(PageRow(i).date_created)
          /\ EntriesFor(rel.items[i], "date_created") # {}
          /\ PageRow(j).date_created = None
          /\ EntriesFor(rel.items[j], "date_created") = {}


\* The operations a backfill of store d is to leave: the create of the local
\* device's row, of its storage statistics, of every tag and label, and of
\* every row of the device-scoped tables the local device owns.
ExpectedOperations(d) ==
    {DeviceCreate(r) : r \in LocalRows(d, "device")}
    \cup {StorageStatisticsCreate(d, r) : r \in LocalRows(d, "storage_statistics")}
    \cup {TagCreate(d, r) : r \in LocalRows(d, "tag")}
    \cup {LabelCreate(d, r) : r \in LocalRows(d, "label")}
    \cup {LocationCreate(d, r) : r \in LocalRows(d, "location")}
    \cup {ObjectCreate(d, r) : r \in LocalRows(d, "object")}
    \cup {ExifDataCreate(d, r) : r \in LocalRows(d, "exif_data")}
    \cup {FilePathCreate(d, r) : r \in LocalRows(d, "file_path")}
    \cup {TagOnObjectCreate(d, r) : r \in LocalRows(d, "tag_on_object")}
    \cup {LabelOnObjectCreate(d, r) : r \in LocalRows(d, "label_on_object")}

\* The covered rows of store d, each with its table.
CoveredRows(d) ==
    UNION {{<<model, r>> : r \in LocalRows(d, model)} : model \in SyncTables}

ReleasesOnReturn(c) ==
    (pc[c] \notin Returned /\ pc'[c] \in Returned) =>
        lock = Some(c) /\ lock' = None

\* Caller c stops waiting in this step: it has the lock.
AcquiresOnWake(c) ==
    (pc[c] = "waiting" /\ pc'[c] # "waiting") =>
        pc'[c] = "locked" /\ lock' = Some(c)

\* C22 (lock release and progress): backfill_operations frees the lock in
\* the step in which it returns, whether it committed, found no device row
\* or failed inside the transaction, and a waiting caller leaves the wait
\* only with the lock; no caller holds the lock for ever and no caller waits
\* for it for ever, so a caller waiting for the lock eventually acquires it.
C22_LockProgress ==
    /\ [][\A c \in Callers : ReleasesOnReturn(c) /\ AcquiresOnWake(c)]_vars
    /\ \A c \in Callers : []<>(lock # Some(c))
    /\ \A c \in Callers : []<>(pc[c] # "waiting")

\* Caller b holds the lock after caller a's run, which held it before, ended
\* with an error inside the transaction and nothing was ever committed.
C22_Witness ==
    /\ pc["a"] = "aborted"
    /\ ReturnedError(result["a"])
    /\ pc["b"] = "wiping"
    /\ lock = Some("b")
    /\ commits = <<>>


\* Task t of caller c awaits the write of an empty page.
EmptyWritePending(c, t) ==
    tasks[c][t].st = "write" /\ tasks[c][t].items = <<>>

\* What follows the pending write of an empty page: the write returns and the
\* task is over, or the call ends with an error and nothing committed.
EmptyWriteStep(c, t) ==
    (EmptyWritePending(c, t) /\ tasks'[c][t] # tasks[c][t]) =>
        \/ /\ tasks'[c][t].st = "done"
           /\ tasks'[c][t].writes = tasks[c][t].writes + 1
           /\ tasks'[c][t].fetches = tasks[c][t].fetches
        \/ /\ pc'[c] = "aborted"
           /\ ReturnedError(result'[c])
           /\ log' = log

\* C23 (empty pages are still persisted): every table task that returned Ok
\* has issued as many batch writes as fetches, at least one of each, the last
\* one with the empty page, which is written like any other: a task whose
\* fetch returned no row awaits a write, and that write either returns or
\* fails the backfill.
C23_EmptyPagePersisted ==
    /\ [](\A c \in Callers : \A t \in PaginatedTables :
             LET p == tasks[c][t] IN
             /\ p.st = "done" => p.writes = p.fetches /\ p.fetches >= 1
             /\ (p.st = "write" /\ p.next_cursor = None) => p.items = <<>>
             /\ (p.fetches > p.writes /\ pc[c] \in {"wave1", "wave2"}) =>
                   p.st = "write")
    /\ [][\A c \in Callers : \A t \in PaginatedTables : EmptyWriteStep(c, t)]_vars

\* The backfill of a store without tags failed on the batch write of the tag
\* task, which can only have been that of the empty page; nothing was
\* committed.
C23_Witness ==
    /\ pc["a"] = "aborted"
    /\ db.tag = {}
    /\ result["a"] = Some(Err("storage-write-failure", "tag"))
    /\ log = InitialLog
    /\ IsSome(local_device["a"])


\* The last call wrote the metadata of a handle and returned Ok, as did every
\* call before it.
WroteLast == sdSeq.clean /\ sdResult.error = "none" /\ sdResult.wrote # None

\* What try_load(location_path) returns on the files as they are:
\* Some(metadata) for Ok(Some(handle)), None for Ok(None) and for an error.
TryLoadReturns(file_path) ==
    IF fs[file_path] = None THEN None
    ELSE Deserialize(Unwrap(fs[file_path]))

\* C24 (sidecar write/load round trip): after any sequence of successful
\* calls the last of which wrote the metadata, try_load of the handle's path
\* returns metadata equal to the metadata written, and the file holds the
\* serialized metadata and no byte more.
C24_RoundTrip ==
    WroteLast =>
        LET self == Unwrap(sdResult.wrote) IN
        /\ DOMAIN self.metadata.libraries # {}
        /\ TryLoadReturns(self.path) = Some(self.metadata)
        /\ FileBytes(fs, self.path) = Serialize(self.metadata)


\* The call `op` on the handle is made in this step.
SidecarCall(op) == handle # None /\ sdResult'.op = op /\ sdVars' # sdVars

\* The step leaves the handle (its library map, its timestamps, its path),
\* the files and the clock as they were.
SidecarUntouched == handle' = handle /\ fs' = fs /\ now' = now

\* One step of update, relink or remove_library: with a library id the
\* metadata does not hold it returns LibraryNotFound, relink to the path the
\* library has returns RelinkSamePath, and either error leaves everything
\* as it was.
UnknownLibraryStep(op) ==
    SidecarCall(op) =>
        LET libraries == Unwrap(handle).metadata.libraries
            library_id == sdResult'.library_id IN
        /\ library_id \notin DOMAIN libraries =>
              sdResult'.error = "LibraryNotFound"
        /\ sdResult'.error = "LibraryNotFound" =>
              library_id \notin DOMAIN libraries
        /\ (op = "relink" /\ library_id \in DOMAIN libraries) =>
              (sdResult'.error = "RelinkSamePath"
                  <=> libraries[library_id].path = sdResult'.location_path)
        /\ sdResult'.error \in {"LibraryNotFound", "RelinkSamePath"} =>
              SidecarUntouched

\* C25 (unknown-library and same-path errors leave the state unchanged):
\* update, relink and remove_library called with a library id that is not in
\* the metadata return LibraryNotFound, relink called with the library's
\* current path returns RelinkSamePath, and in each case the library map, its
\* timestamps, the handle's path and the files on disk are unchanged.
C25_ErrorsLeaveState ==
    [][\A op \in {"update", "relink", "remove_library"} :
          UnknownLibraryStep(op)]_vars

\* remove_library of a library the loaded metadata does not hold returned
\* LibraryNotFound: the handle still holds its library and the file still
\* loads to the same metadata.
C25_Witness ==
    /\ sdResult.op = "remove_library"
    /\ sdResult.error = "LibraryNotFound"
    /\ handle # None
    /\ DOMAIN Unwrap(handle).metadata.libraries # {}
    /\ sdResult.library_id \notin DOMAIN Unwrap(handle).metadata.libraries
    /\ TryLoadReturns(Unwrap(handle).path) = Some(Unwrap(handle).metadata)
    /\ Unwrap(handle).metadata.updated_at < now


\* The metadata file of the handle exists.
HandleFileExists == fs[Unwrap(handle).path] # None

\* The library map of the handle.
HandleLibraries == Unwrap(handle).metadata.libraries

\* A step of remove_library or clean_stale_libraries that returns Ok and
\* leaves the library map empty: the file, which existed, is removed.
LastLibraryStep(op) ==
    (/\ SidecarCall(op)
     /\ sdResult'.error = "none"
     /\ DOMAIN HandleLibraries # {}
     /\ DOMAIN Unwrap(handle').metadata.libraries = {}) =>
        /\ fs[Unwrap(handle).path] # None
        /\ fs' = RemoveFile(fs, Unwrap(handle).path)

\* A step of clean_stale_libraries that finds no stale library: nothing
\* changes, neither the files nor a timestamp.
NothingStaleStep ==
    (/\ SidecarCall("clean_stale_libraries")
     /\ DOMAIN Unwrap(handle').metadata.libraries = DOMAIN HandleLibraries) =>
        /\ sdResult'.error = "none"
        /\ SidecarUntouched

====
